---- MODULE Spec2Model ----
(***************************************************************************)
(* Heuristic field extraction engine of scan-in: the numeric locale       *)
(* parser, the document currency detector, the four positional resolvers  *)
(* and the field aggregator, modelled from src/unnamed/part_002 (the      *)
(* revision whose scanInvoice calls extractInvoiceDetails).               *)
(*                                                                         *)
(* Text is a TLA+ string; a character is a string of length 1.  Indices   *)
(* are Go's: 0-based, half-open slices.                                   *)
(***************************************************************************)
EXTENDS Integers, Sequences, FiniteSets, TLC

VARIABLES
    pc,          \* position of the caller: "ready", "done"
    amountStr,   \* argument of parseAmount
    parsed,      \* value returned by parseAmount
    textLines,   \* the caller's line list ([]TextLine)
    mapOrder,    \* iteration order the runtime picks for a range over a map
    detected,    \* value returned by detectDocumentCurrency
    invoice,     \* value returned by the last call of the engine
    previous,    \* value returned by the call before it
    zones,       \* the lines the resolvers put in the top 30% and the top half
    ocrResult,   \* the OCR result given to extractTextFromOCRResult
    returnedAt,  \* the return statement of extractAmountFromPosition that ran
    files,       \* the working directory: content of the two fixed-name files
    requests     \* the scanInvoice handlers in flight, one per request

vars == <<pc, amountStr, parsed, textLines, mapOrder, detected, invoice, previous,
         zones, ocrResult, returnedAt, files, requests>>

\* no line classified yet
NoZones == [topLines |-> <<>>, topHalfLines |-> <<>>]

\* the image request r uploads, and what enhanceImageForOCR makes of an image
Upload(r) == [owner |-> r, enhanced |-> FALSE]
Enhanced(image) == [image EXCEPT !.enhanced = TRUE]

\* a file that does not exist, a value not set yet
Absent == [owner |-> 0, enhanced |-> FALSE]

\* neither "temp-invoice.jpg" nor "processed-invoice.jpg" exists
NoFiles == [temp |-> Absent, processed |-> Absent]

\* the requests a server handles at a time
MaxRequests == 2
Requests == 1..MaxRequests

\* no handler has started
NoRequests ==
    [r \in Requests |->
        [pc |-> "idle", src |-> Absent, imageData |-> Absent, sent |-> Absent,
         status |-> 0]]

-----------------------------------------------------------------------------
(* Bounds of the model.                                                    *)

MaxAmountLen == 5
MaxLines == 2
MaxEngineLines == 3

-----------------------------------------------------------------------------
(* Go strings.                                                             *)

\* s[i], 0-based
CharAt(s, i) == SubSeq(s, i + 1, i + 1)

\* s[lo:hi]
Slice(s, lo, hi) == SubSeq(s, lo + 1, hi)

\* strings.Count(s, c) for a one-character c
RECURSIVE Count(_, _)
Count(s, c) ==
    IF Len(s) = 0 THEN 0
    ELSE (IF CharAt(s, 0) = c THEN 1 ELSE 0) + Count(Slice(s, 1, Len(s)), c)

\* strings.LastIndex(s, c) for a one-character c; -1 when absent
RECURSIVE LastIndex(_, _)
LastIndex(s, c) ==
    IF Len(s) = 0 THEN -1
    ELSE IF CharAt(s, Len(s) - 1) = c THEN Len(s) - 1
    ELSE LastIndex(Slice(s, 0, Len(s) - 1), c)

\* strings.ReplaceAll(s, c, "") for a one-character c
RECURSIVE RemoveAll(_, _)
RemoveAll(s, c) ==
    IF Len(s) = 0 THEN ""
    ELSE (IF CharAt(s, 0) = c THEN "" ELSE CharAt(s, 0))
             \o RemoveAll(Slice(s, 1, Len(s)), c)

\* strings.Contains(s, sub)
Contains(s, sub) ==
    \E i \in 0..(Len(s) - Len(sub)) : Slice(s, i, i + Len(sub)) = sub

UpperLetters == "ABCDEFGHIJKLMNOPQRSTUVWXYZ"
LowerLetters == "abcdefghijklmnopqrstuvwxyz"

IsUpper(c) == \E i \in 0..25 : CharAt(UpperLetters, i) = c
IsLower(c) == \E i \in 0..25 : CharAt(LowerLetters, i) = c

LowerOf(c) ==
    IF IsUpper(c)
    THEN CharAt(LowerLetters, CHOOSE i \in 0..25 : CharAt(UpperLetters, i) = c)
    ELSE c

UpperOf(c) ==
    IF IsLower(c)
    THEN CharAt(UpperLetters, CHOOSE i \in 0..25 : CharAt(LowerLetters, i) = c)
    ELSE c

\* strings.ToLower(s): the two halves of s, each in lower case
RECURSIVE ToLower(_)
ToLower(s) ==
    IF Len(s) <= 1 THEN LowerOf(s)
    ELSE ToLower(Slice(s, 0, Len(s) \div 2)) \o ToLower(Slice(s, Len(s) \div 2, Len(s)))

\* len(s): Go counts bytes of the UTF-8 encoding
RECURSIVE ByteLen(_)
ByteLen(s) ==
    IF Len(s) = 0 THEN 0
    ELSE (CASE CharAt(s, 0) = "€" -> 3
            [] CharAt(s, 0) = "£" -> 2
            [] OTHER -> 1) + ByteLen(Slice(s, 1, Len(s)))

RECURSIVE TrimLeft(_)
TrimLeft(s) ==
    IF Len(s) > 0 /\ CharAt(s, 0) \in {" ", "\t", "\n", "\f", "\r"}
    THEN TrimLeft(Slice(s, 1, Len(s)))
    ELSE s

RECURSIVE TrimRight(_)
TrimRight(s) ==
    IF Len(s) > 0 /\ CharAt(s, Len(s) - 1) \in {" ", "\t", "\n", "\f", "\r"}
    THEN TrimRight(Slice(s, 0, Len(s) - 1))
    ELSE s

\* strings.TrimSpace(s)
TrimSpace(s) == TrimRight(TrimLeft(s))

RECURSIVE Reverse(_)
Reverse(s) ==
    IF Len(s) = 0 THEN "" ELSE Reverse(Slice(s, 1, Len(s))) \o CharAt(s, 0)

Digits == {"0", "1", "2", "3", "4", "5", "6", "7", "8", "9"}

DigitVal(c) == CHOOSE d \in 0..9 : CharAt("0123456789", d) = c

RECURSIVE AllDigits(_)
AllDigits(s) ==
    Len(s) = 0 \/ (CharAt(s, 0) \in Digits /\ AllDigits(Slice(s, 1, Len(s))))

\* the natural number written by a digit string ("" is 0)
RECURSIVE NatOf(_)
NatOf(s) ==
    IF Len(s) = 0 THEN 0
    ELSE 10 * NatOf(Slice(s, 0, Len(s) - 1)) + DigitVal(CharAt(s, Len(s) - 1))

RECURSIVE Pow10(_)
Pow10(n) == IF n = 0 THEN 1 ELSE 10 * Pow10(n - 1)

\* A float64 holding a short decimal is written m / 10^e with no trailing
\* zero in m: equal decimals are equal records.
RECURSIVE Normalize(_, _)
Normalize(m, e) ==
    IF e > 0 /\ m % 10 = 0 THEN Normalize(m \div 10, e - 1) ELSE [m |-> m, e |-> e]

Float(m, e) == [err |-> FALSE, val |-> Normalize(m, e)]

\* the (0, err) pair of a failed strconv.ParseFloat
SyntaxError == [err |-> TRUE, val |-> Normalize(0, 0)]

\* strconv.ParseFloat(s, 64) for s over digits, '.' and ',': digits with at
\* most one '.', at least one digit; anything else is a syntax error.
ParseFloat(s) ==
    LET dot == LastIndex(s, ".")
        ip  == IF dot = -1 THEN s ELSE Slice(s, 0, dot)
        fp  == IF dot = -1 THEN "" ELSE Slice(s, dot + 1, Len(s))
    IN  IF AllDigits(ip) /\ AllDigits(fp) /\ Len(ip) + Len(fp) > 0
        THEN Float(NatOf(ip \o fp), Len(fp))
        ELSE SyntaxError

-----------------------------------------------------------------------------
(* Numeric locale parser.                                                  *)

\* Case 1 (one comma): the second assignment overwrites the first with the
\* prefix before the comma, periods removed
case1European(s) ==
    LET lastCommaIndex == LastIndex(s, ",")
        replaced == Slice(s, 0, lastCommaIndex) \o "."
                        \o Slice(s, lastCommaIndex + 1, Len(s))
    IN  IF lastCommaIndex # -1
        THEN RemoveAll(Slice(replaced, 0, lastCommaIndex), ".")
        ELSE s

\* a slip that keeps the first period instead of the last
case4KeepFirstPeriod(s) ==
    LET firstPeriodIndex == Len(s) - 1 - LastIndex(Reverse(s), ".")
        kept == Slice(s, 0, firstPeriodIndex + 1)
                    \o RemoveAll(Slice(s, firstPeriodIndex + 1, Len(s)), ".")
    IN  RemoveAll(kept, ",")

\* Case 4 (more than one period)
case4MultiplePeriods(s) ==
    LET lastPeriodIndex == LastIndex(s, ".")
        kept == RemoveAll(Slice(s, 0, lastPeriodIndex), ".")
                    \o Slice(s, lastPeriodIndex, Len(s))
    IN  IF lastPeriodIndex # -1 THEN RemoveAll(kept, ",") ELSE s

\* Case 5 (more than one comma): as case 1, the prefix before the last comma
\* is all that is kept
case5MultipleCommas(s) ==
    LET lastCommaIndex == LastIndex(s, ",")
        replaced == Slice(s, 0, lastCommaIndex) \o "."
                        \o Slice(s, lastCommaIndex + 1, Len(s))
    IN  IF lastCommaIndex # -1
        THEN RemoveAll(Slice(replaced, 0, lastCommaIndex), ",")
        ELSE s

parseAmount(s) ==
    LET commaCount  == Count(s, ",")
        periodCount == Count(s, ".")
        processedStr ==
            IF (commaCount = 1 /\ periodCount >= 1)
                   \/ (commaCount = 1 /\ periodCount = 0)
            THEN case1European(s)
            ELSE IF periodCount = 1 THEN RemoveAll(s, ",")
            ELSE IF commaCount = 0 /\ periodCount = 0 THEN s
            ELSE IF periodCount > 1 THEN case4MultiplePeriods(s)
            ELSE IF commaCount > 1 THEN case5MultipleCommas(s)
            ELSE s
    IN  ParseFloat(processedStr)

-----------------------------------------------------------------------------
(* Inputs of the numeric locale parser.                                    *)

AmountAlphabet == {"0", "7", ".", ","}

RECURSIVE StringsOfLen(_, _)
StringsOfLen(A, n) ==
    IF n = 0 THEN {""}
    ELSE {s \o c : s \in StringsOfLen(A, n - 1), c \in A}

StringsUpTo(A, n) == UNION {StringsOfLen(A, k) : k \in 0..n}

\* the amounts the documentation of the parser names
NamedAmounts ==
    {"1.234,56", "1,234.56", "1234.56", "1234,56", "12.34.56", "1,234,56",
     "1,234,567.89", "1.234.567,89", "99.99", "1.234,50"}

AmountStrings == StringsUpTo(AmountAlphabet, MaxAmountLen) \cup NamedAmounts

NoInvoice == [vendorName |-> "", invoiceNumber |-> "", date |-> "",
              totalAmount |-> Normalize(0, 0), currency |-> ""]

InitParse ==
    /\ pc = "ready"
    /\ amountStr \in AmountStrings
    /\ parsed = SyntaxError
    /\ textLines = <<>>
    /\ mapOrder = <<>>
    /\ detected = ""
    /\ invoice = NoInvoice
    /\ previous = NoInvoice
    /\ zones = NoZones
    /\ ocrResult = <<>>
    /\ returnedAt = 0
    /\ files = NoFiles
    /\ requests = NoRequests

CallParseAmount ==
    /\ pc = "ready"
    /\ parsed' = parseAmount(amountStr)
    /\ pc' = "done"
    /\ UNCHANGED <<amountStr, textLines, mapOrder, detected, invoice, previous, zones, ocrResult, returnedAt, files, requests>>

NextParse == CallParseAmount

SpecParse == InitParse /\ [][NextParse]_vars

-----------------------------------------------------------------------------
(* Claims about the numeric locale parser.                                 *)

\* the digits of s, everything else deleted
RECURSIVE DigitsOnly(_)
DigitsOnly(s) ==
    IF Len(s) = 0 THEN ""
    ELSE (IF CharAt(s, 0) \in Digits THEN CharAt(s, 0) ELSE "")
             \o DigitsOnly(Slice(s, 1, Len(s)))

\* the decimal with integer digits ip and fractional digits fp
Decimal(ip, fp) == ParseFloat(ip \o "." \o fp)

BeforeLast(s, c) == Slice(s, 0, LastIndex(s, c))
AfterLast(s, c) == Slice(s, LastIndex(s, c) + 1, Len(s))

\* digit groups separated by single commas, a period, two digits
USFormat(s) ==
    /\ Len(s) >= 4
    /\ Count(s, ".") = 1
    /\ LastIndex(s, ".") = Len(s) - 3
    /\ AllDigits(AfterLast(s, "."))
    /\ CharAt(s, 0) \in Digits
    /\ \A i \in 0..(Len(s) - 4) :
           CharAt(s, i) = "," => CharAt(s, i + 1) \in Digits

\* C4: with exactly one comma (every period before it) the comma is the
\* decimal separator, the periods are thousands separators and the digits
\* after the comma are the fractional part; "1.234,56" and "1234,56" parse
\* to 1234.56.
C4_OneCommaIsDecimal ==
    (pc = "done" /\ Count(amountStr, ",") = 1
         /\ Count(AfterLast(amountStr, ","), ".") = 0)
        => parsed = Decimal(DigitsOnly(BeforeLast(amountStr, ",")),
                            AfterLast(amountStr, ","))

\* C5: comma thousands separators followed by one period and two decimals
\* parse to the value obtained by deleting the commas; "1,234.56" and
\* "1234.56" parse to 1234.56.
C5_USFormat ==
    (pc = "done" /\ USFormat(amountStr))
        => parsed = ParseFloat(RemoveAll(amountStr, ","))

\* C6: with more than one period and a comma count other than one, the last
\* period is the decimal separator, every earlier period and every comma is
\* deleted and the rest is parsed; "12.34.56" parses to 1234.56.
C6_MultiPeriodLastIsDecimal ==
    /\ (pc = "done" /\ Count(amountStr, ".") > 1 /\ Count(amountStr, ",") # 1)
           => parsed = Decimal(DigitsOnly(BeforeLast(amountStr, ".")),
                               RemoveAll(AfterLast(amountStr, "."), ","))
    /\ (pc = "done" /\ amountStr = "12.34.56") => parsed = Float(123456, 2)

C6_Witness ==
    /\ pc = "done"
    /\ amountStr = "12.34.56"
    /\ parsed = Float(123456, 2)

\* C7: with more than one comma and no period, the last comma is the decimal
\* separator, the earlier commas are deleted and the digits after the last
\* comma are the fractional part; "1,234,56" parses to 1234.56.
C7_MultiCommaLastIsDecimal ==
    (pc = "done" /\ Count(amountStr, ",") > 1 /\ Count(amountStr, ".") = 0)
        => parsed = Decimal(DigitsOnly(BeforeLast(amountStr, ",")),
                            AfterLast(amountStr, ","))

-----------------------------------------------------------------------------
(* Go regexp (RE2 syntax, leftmost-first matching).  A pattern is a tree.  *)
(* The search keeps its threads in the order of preference of a            *)
(* backtracking matcher: earlier start first, alternatives in order,       *)
(* repetitions greedy.  The first thread that gets through the pattern is  *)
(* the match the regexp package reports.                                   *)

Letters == {CharAt(LowerLetters, i) : i \in 0..25}
             \cup {CharAt(UpperLetters, i) : i \in 0..25}

\* \s
WhiteSpace == {" ", "\t", "\n", "\f", "\r"}

\* a set of characters under (?i)
Fold(S) == S \cup {LowerOf(c) : c \in S} \cup {UpperOf(c) : c \in S}

\* the characters of a string, as a set
CharsOf(str) == {CharAt(str, i) : i \in 0..(Len(str) - 1)}

Node(t, cs, sub, lo, hi) == [t |-> t, cs |-> cs, sub |-> sub, lo |-> lo, hi |-> hi]

\* one character of a class
Chr(S) == Node("chr", S, <<>>, 0, 0)
\* concatenation
Cat(parts) == Node("cat", {}, parts, 0, 0)
\* alternation a|b|c, leftmost alternative preferred
Alt(parts) == Node("alt", {}, parts, 0, 0)
\* r{lo,hi}, greedy; hi = -1 is unbounded
Rep(r, lo, hi) == Node("rep", {}, <<r>>, lo, hi)
Star(r) == Rep(r, 0, -1)
Plus(r) == Rep(r, 1, -1)
Opt(r) == Rep(r, 0, 1)
\* capturing group number n
Grp(n, r) == Node("grp", {}, <<r>>, n, 0)
\* a literal: character sets matched one after the other
Str(sets) == IF Len(sets) = 1 THEN Chr(sets[1]) ELSE Node("str", {}, sets, 0, 0)
\* a literal, and a literal under (?i)
Lit(str) == Str([k \in 1..Len(str) |-> {CharAt(str, k - 1)}])
LitI(str) == Str([k \in 1..Len(str) |-> Fold({CharAt(str, k - 1)})])

MaxGroups == 3
NoCaps == [n \in 1..MaxGroups |-> <<-1, -1>>]
Fail == <<>>

\* a thread: where its match began, the position it reached, its groups
Thread(start, pos, caps) == <<start, pos, caps>>

\* the sequences of a sequence, one after the other
RECURSIVE Flatten(_)
Flatten(seqs) ==
    IF Len(seqs) = 0 THEN <<>>
    ELSE IF Len(seqs) = 1 THEN seqs[1]
    ELSE Flatten(SubSeq(seqs, 1, Len(seqs) \div 2))
             \o Flatten(SubSeq(seqs, Len(seqs) \div 2 + 1, Len(seqs)))

\* the most characters a repetition with the upper bound hi can take at i
RepLimit(hi, s, i) == IF hi = -1 \/ hi > Len(s) - i THEN Len(s) - i ELSE hi

\* the number of characters of the class cs that s has from position i on,
\* at most limit
ClassRun(cs, s, i, limit) ==
    Cardinality({k \in 1..limit : \A j \in 1..k : CharAt(s, i + j - 1) \in cs})

\* the literal sets is at position i of s
LiteralAt(sets, s, i) ==
    /\ i + Len(sets) <= Len(s)
    /\ \A k \in 1..Len(sets) : CharAt(s, i + k - 1) \in sets[k]

\* the elements of a sequence given by a rule, each worked out once
Each(f) == SubSeq(f, 1, Len(f))

\* the threads, each n characters on
Advance(threads, n) ==
    Each([k \in 1..Len(threads) |->
             Thread(threads[k][1], threads[k][2] + n, threads[k][3])])

\* the threads at the opening and at the closing parenthesis of group n
OpenGroup(n, threads) ==
    Each([k \in 1..Len(threads) |->
             Thread(threads[k][1], threads[k][2],
                    [threads[k][3] EXCEPT ![n] = <<threads[k][2], -1>>])])

CloseGroup(n, threads) ==
    Each([k \in 1..Len(threads) |->
             Thread(threads[k][1], threads[k][2],
                    [threads[k][3] EXCEPT ![n] = <<@[1], threads[k][2]>>])])

\* a greedy repetition of a character class that can take n characters
\* after thread t: the longest first, then one character fewer, down to lo
ClassThreads(t, n, lo) ==
    IF n < lo THEN <<>>
    ELSE Each([j \in 1..(n - lo + 1) |-> Thread(t[1], t[2] + n - j + 1, t[3])])

\* the bounds of a repetition after one iteration
LessOne(lo) == IF lo > 0 THEN lo - 1 ELSE 0
OneFewer(hi) == IF hi > 0 THEN hi - 1 ELSE -1

\* the threads that got through the pattern r, from the given threads
RECURSIVE Step(_, _, _)
\* the same for a concatenation: the first half of the parts, then the second
RECURSIVE StepAll(_, _, _)
\* the same for a greedy repetition r{lo,hi}: from each thread, first the
\* threads that take one more iteration, then the thread itself if it may
\* stop (no repeated pattern of the program matches the empty string)
RECURSIVE StepRep(_, _, _, _, _)

StepAll(parts, s, threads) ==
    IF Len(parts) = 0 \/ Len(threads) = 0 THEN threads
    ELSE IF Len(parts) = 1 THEN Step(parts[1], s, threads)
    ELSE StepAll(SubSeq(parts, Len(parts) \div 2 + 1, Len(parts)), s,
                 StepAll(SubSeq(parts, 1, Len(parts) \div 2), s, threads))

StepRep(r, lo, hi, s, threads) ==
    IF hi = 0 \/ Len(threads) = 0 THEN threads
    ELSE Flatten(Each([k \in 1..Len(threads) |->
                          StepRep(r, LessOne(lo), OneFewer(hi), s,
                                  Step(r, s, <<threads[k]>>))
                              \o (IF lo = 0 THEN <<threads[k]>> ELSE <<>>)]))

Step(r, s, threads) ==
    CASE r.t = "chr" ->
           Advance(SelectSeq(threads,
                             LAMBDA t : t[2] < Len(s) /\ CharAt(s, t[2]) \in r.cs), 1)
      [] r.t = "str" ->
           Advance(SelectSeq(threads, LAMBDA t : LiteralAt(r.sub, s, t[2])),
                   Len(r.sub))
      [] r.t = "cat" -> StepAll(r.sub, s, threads)
      [] r.t = "alt" ->
           Flatten(Each([k \in 1..Len(threads) |->
                            Flatten(Each([j \in 1..Len(r.sub) |->
                                             Step(r.sub[j], s, <<threads[k]>>)]))]))
      [] r.t = "grp" -> CloseGroup(r.lo, Step(r.sub[1], s, OpenGroup(r.lo, threads)))
      [] r.t = "rep" ->
           IF r.sub[1].t = "chr"
           THEN Flatten(Each([k \in 1..Len(threads) |->
                                 ClassThreads(threads[k],
                                              ClassRun(r.sub[1].cs, s, threads[k][2],
                                                       RepLimit(r.hi, s, threads[k][2])),
                                              r.lo)]))
           ELSE StepRep(r.sub[1], r.lo, r.hi, s, threads)

\* a compiled pattern: its tree and its number of capturing groups
Regexp(tree, groups) == [tree |-> tree, groups |-> groups]

\* the text of capture n of the match m = <<start, end, captures>>; "" for
\* a group that took no part
Capture(s, m, n) ==
    IF m[3][n][1] = -1 \/ m[3][n][2] = -1 THEN ""
    ELSE Slice(s, m[3][n][1], m[3][n][2])

\* the first of the threads, or Fail
FirstThread(threads) == IF Len(threads) = 0 THEN Fail ELSE threads[1]

\* the leftmost match starting at or after position from:
\* <<start, end, captures>>, or Fail
FindFrom(re, s, from) ==
    IF from > Len(s) THEN Fail
    ELSE FirstThread(Step(re.tree, s,
                          Each([k \in 1..(Len(s) - from + 1) |->
                                   Thread(from + k - 1, from + k - 1, NoCaps)])))

\* the match m followed by its groups; nil for no match
Submatch(m, re, s) ==
    IF m = Fail THEN <<>>
    ELSE <<Slice(s, m[1], m[2])>> \o [n \in 1..re.groups |-> Capture(s, m, n)]

\* re.FindStringSubmatch(s)
FindStringSubmatch(re, s) == Submatch(FindFrom(re, s, 0), re, s)

\* the matched text of m; "" for no match
MatchText(m, s) == IF m = Fail THEN "" ELSE Slice(s, m[1], m[2])

\* re.FindString(s)
FindString(re, s) == MatchText(FindFrom(re, s, 0), s)

\* re.MatchString(s)
MatchString(re, s) == FindFrom(re, s, 0) # Fail

\* successive non-overlapping matches from position from on (an empty
\* match directly after the previous match is not reported)
RECURSIVE FindAllFrom(_, _, _, _)
RECURSIVE FoundNext(_, _, _, _)
FoundNext(m, re, s, prevEnd) ==
    IF m = Fail THEN <<>>
    ELSE IF m[2] = m[1]
    THEN (IF m[1] = prevEnd THEN <<>> ELSE <<m>>)
             \o FindAllFrom(re, s, m[2] + 1, m[2])
    ELSE <<m>> \o FindAllFrom(re, s, m[2], m[2])

FindAllFrom(re, s, from, prevEnd) == FoundNext(FindFrom(re, s, from), re, s, prevEnd)

\* the texts of the matches ms
MatchTexts(ms, s) == [k \in 1..Len(ms) |-> MatchText(ms[k], s)]

\* re.FindAllString(s, -1)
FindAllString(re, s) == MatchTexts(FindAllFrom(re, s, 0, -1), s)

\* the matches ms, each followed by its groups
Submatches(ms, re, s) == [k \in 1..Len(ms) |-> Submatch(ms[k], re, s)]

\* re.FindAllStringSubmatch(s, -1)
FindAllStringSubmatch(re, s) == Submatches(FindAllFrom(re, s, 0, -1), re, s)

-----------------------------------------------------------------------------
(* Line records.                                                           *)

\* TextLine; Width and Height are carried and never read by the engine
TextLine(text, x, y) ==
    [Text |-> text, X |-> x, Y |-> y, Width |-> 100, Height |-> 20]

SeqsUpTo(S, n) == UNION {[1..k -> S] : k \in 0..n}

-----------------------------------------------------------------------------
(* Document currency detector.                                             *)

Currencies == {"USD", "EUR", "GBP"}

\* the orders in which a range over the three-key map may visit its keys
MapOrders ==
    {o \in [1..3 -> Currencies] : \A i, j \in 1..3 : o[i] = o[j] => i = j}

\* what one line adds to currencyCount
lineCount(line) ==
    LET text == line.Text
        lowerText == ToLower(text)
    IN  [USD |-> (IF Contains(text, "$") THEN 1 ELSE 0)
                   + (IF Contains(lowerText, "usd") \/ Contains(lowerText, "dollar")
                      THEN 1 ELSE 0),
         EUR |-> (IF Contains(text, "€") THEN 2 ELSE 0)
                   + (IF Contains(lowerText, "eur") \/ Contains(lowerText, "euro")
                      THEN 2 ELSE 0),
         GBP |-> (IF Contains(text, "£") THEN 1 ELSE 0)
                   + (IF Contains(lowerText, "gbp") \/ Contains(lowerText, "pound")
                      THEN 1 ELSE 0)]

\* currencyCount after the loop over the lines
RECURSIVE currencyCount(_)
currencyCount(lines) ==
    IF Len(lines) = 0 THEN [USD |-> 0, EUR |-> 0, GBP |-> 0]
    ELSE LET rest == currencyCount(SubSeq(lines, 1, Len(lines) - 1))
             add  == lineCount(lines[Len(lines)])
         IN  [USD |-> rest.USD + add.USD,
              EUR |-> rest.EUR + add.EUR,
              GBP |-> rest.GBP + add.GBP]

\* the selection loop: maxCount starts at 0 and mostFrequentCurrency at
\* "EUR"; a key replaces it only on a strictly greater count, keys visited
\* in the order the runtime picks
RECURSIVE mostFrequent(_, _)
mostFrequent(count, order) ==
    IF Len(order) = 0 THEN [maxCount |-> 0, mostFrequentCurrency |-> "EUR"]
    ELSE LET before == mostFrequent(count, SubSeq(order, 1, Len(order) - 1))
             currency == order[Len(order)]
         IN  IF count[currency] > before.maxCount
             THEN [maxCount |-> count[currency], mostFrequentCurrency |-> currency]
             ELSE before

detectDocumentCurrency(lines, order) ==
    mostFrequent(currencyCount(lines), order).mostFrequentCurrency

\* line texts that carry the symbols, codes and words the detector reads
CurrencyTexts ==
    {"", "Total", "$5", "€5", "£5", "5 usd", "5 USD", "Dollars", "5 EUR", "euro",
     "GBP 5", "pounds", "€ usd", "$ usd €"}

InitCurrency ==
    /\ pc = "ready"
    /\ textLines \in SeqsUpTo({TextLine(t, 0, 0) : t \in CurrencyTexts}, MaxLines)
    /\ amountStr = ""
    /\ parsed = SyntaxError
    /\ mapOrder = <<>>
    /\ detected = ""
    /\ invoice = NoInvoice
    /\ previous = NoInvoice
    /\ zones = NoZones
    /\ ocrResult = <<>>
    /\ returnedAt = 0
    /\ files = NoFiles
    /\ requests = NoRequests

CallDetectDocumentCurrency ==
    /\ pc = "ready"
    /\ \E order \in MapOrders :
          /\ mapOrder' = order
          /\ detected' = detectDocumentCurrency(textLines, order)
    /\ pc' = "done"
    /\ UNCHANGED <<amountStr, parsed, textLines, invoice, previous, zones, ocrResult, returnedAt, files, requests>>

NextCurrency == CallDetectDocumentCurrency

SpecCurrency == InitCurrency /\ [][NextCurrency]_vars

-----------------------------------------------------------------------------
(* Claims about the document currency detector.                            *)

\* the currencies whose tally is the highest
Highest(count) ==
    {c \in Currencies : \A d \in Currencies : count[c] >= count[d]}

\* C8: the detector returns the currency with the strictly highest weighted
\* tally; when the highest tally is shared by two or more currencies, or all
\* tallies are zero, it returns "EUR".
C8_TieBreakIsEUR ==
    pc = "done" =>
        LET count == currencyCount(textLines)
        IN  IF Cardinality(Highest(count)) = 1
            THEN detected \in Highest(count)
            ELSE detected = "EUR"

\* the number of the tests ts (each a set of alternatives) that text passes
Hits(text, ts) == Cardinality({t \in ts : \E w \in t : Contains(text, w)})

\* C9: each line adds 2 to EUR for '€' and 2 for "eur", 1 to USD for '$' and
\* 1 for "usd"/"dollar", 1 to GBP for '£' and 1 for "gbp"/"pound", each test
\* counted at most once per line; hence a document of one line containing
\* both '€' and the token usd is detected as EUR.
C9_Weighting ==
    pc = "done" =>
        /\ \A i \in 1..Len(textLines) :
              LET text == textLines[i].Text
                  lower == ToLower(text)
              IN  lineCount(textLines[i]) =
                      [USD |-> Hits(text, {{"$"}}) + Hits(lower, {{"usd", "dollar"}}),
                       EUR |-> 2 * Hits(text, {{"€"}}) + 2 * Hits(lower, {{"eur"}}),
                       GBP |-> Hits(text, {{"£"}}) + Hits(lower, {{"gbp", "pound"}})]
        /\ (Len(textLines) = 1
               /\ Contains(textLines[1].Text, "€")
               /\ Contains(ToLower(textLines[1].Text), "usd"))
              => detected = "EUR"

-----------------------------------------------------------------------------
(* Zone analysis shared by the resolvers.                                  *)

\* the larger of two ints
Larger(a, b) == IF a > b THEN a ELSE b

\* maxY: starts at 0, raised by every larger line.Y
RECURSIVE maxYOf(_)
maxYOf(lines) ==
    IF Len(lines) = 0 THEN 0
    ELSE Larger(lines[Len(lines)].Y, maxYOf(SubSeq(lines, 1, Len(lines) - 1)))

\* maxX: starts at 0, raised by every larger line.X
RECURSIVE maxXOf(_)
maxXOf(lines) ==
    IF Len(lines) = 0 THEN 0
    ELSE Larger(lines[Len(lines)].X, maxXOf(SubSeq(lines, 1, Len(lines) - 1)))

\* a resolver's inner result: nothing yet, or the value to return
NotFound == <<>>
Found(v) == <<v>>

\* the first result if there is one, else the second: the code returns from
\* the first branch that has a value
OrElse(first, second) == IF first # NotFound THEN first ELSE second

-----------------------------------------------------------------------------
(* Invoice number resolver.                                                *)

\* [A-Za-z0-9-]
AlnumDash == Letters \cup Digits \cup {"-"}
\* [-#\s.:]
LabelSeps == {"-", "#", ".", ":"} \cup WhiteSpace

\* ([A-Za-z0-9-]+)
Token == Grp(1, Plus(Chr(AlnumDash)))
\* \s*
Spaces == Star(Chr(WhiteSpace))
\* no\.?
NoDot == Cat(<<LitI("no"), Opt(Lit("."))>>)

invoicePatterns ==
    << Regexp(Cat(<<LitI("inv"), Star(Chr(Fold(CharsOf("oice")))),
                    Star(Chr(LabelSeps)), Token>>), 1),
       Regexp(Cat(<<LitI("invoice"), Spaces, LitI("number"),
                    Star(Chr(LabelSeps)), Token>>), 1),
       Regexp(Cat(<<LitI("invoice"), Spaces, Lit("#"), Spaces, Token>>), 1),
       Regexp(Cat(<<LitI("invoice"), Spaces, NoDot, Spaces, Token>>), 1),
       Regexp(Cat(<<LitI("inv"), Spaces, NoDot, Spaces, Token>>), 1),
       Regexp(Cat(<<LitI("order"), Spaces, LitI("number"),
                    Star(Chr(LabelSeps)), Token>>), 1),
       Regexp(Cat(<<LitI("order"), Spaces, Lit("#"), Spaces, Token>>), 1),
       Regexp(Cat(<<LitI("order"), Spaces, NoDot, Spaces, Token>>), 1),
       Regexp(Cat(<<LitI("reference"), Spaces, LitI("number"),
                    Star(Chr(LabelSeps)), Token>>), 1),
       Regexp(Cat(<<LitI("reference"), Spaces, Lit("#"), Spaces, Token>>), 1),
       Regexp(Cat(<<LitI("reference"), Spaces, NoDot, Spaces, Token>>), 1),
       Regexp(Cat(<<LitI("ref"), Spaces, NoDot, Spaces, Token>>), 1),
       Regexp(Cat(<<Lit("#"), Spaces, Token>>), 1) >>

\* [A-Za-z0-9][-A-Za-z0-9]{2,}
alphanumericRun ==
    Regexp(Cat(<<Chr(Letters \cup Digits), Rep(Chr(AlnumDash), 2, -1)>>), 0)

\* a check that lets a one-character capture through
acceptsNonEmpty(result) == ByteLen(result) > 0

\* "If it's just a single character, it's probably not a valid invoice number"
acceptsResult(result) == ByteLen(result) > 1

\* the capture of one pattern, if the pattern matched and the capture is
\* long enough
acceptedCapture(matches) ==
    IF Len(matches) > 1 /\ acceptsResult(TrimSpace(matches[2]))
    THEN Found(TrimSpace(matches[2]))
    ELSE NotFound

\* the loop over the patterns on one line
RECURSIVE matchInvoicePatterns(_, _)
matchInvoicePatterns(patterns, text) ==
    IF Len(patterns) = 0 THEN NotFound
    ELSE IF Len(patterns) = 1
    THEN acceptedCapture(FindStringSubmatch(patterns[1], text))
    ELSE OrElse(matchInvoicePatterns(SubSeq(patterns, 1, Len(patterns) \div 2), text),
                matchInvoicePatterns(SubSeq(patterns, Len(patterns) \div 2 + 1,
                                            Len(patterns)), text))

\* the loop over the alphanumeric runs of a top-right keyword line
RECURSIVE firstRun(_)
firstRun(matches) ==
    IF Len(matches) = 0 THEN NotFound
    ELSE IF ToLower(Head(matches)) \notin {"invoice", "number", "inv"}
               /\ ByteLen(Head(matches)) > 2
    THEN Found(Head(matches))
    ELSE firstRun(Tail(matches))

\* the condition under which a tier (1..4) looks at a line
invoiceTierTakesLine(tier, line, lowerText, maxX, maxY) ==
    CASE tier = 1 ->
           /\ line.Y < (maxY * 3) \div 10
           /\ line.X > maxX \div 2
           /\ \E kw \in {"invoice", "inv", "number", "#"} : Contains(lowerText, kw)
      [] tier = 2 ->
           \E kw \in {"invoice", "inv", "number", "order", "reference"} :
               Contains(lowerText, kw)
      [] tier = 3 -> line.Y < maxY \div 2
      [] tier = 4 -> TRUE

\* what one line contributes in a tier: the pattern loop and, in tier 1
\* only, the alphanumeric fallback
invoiceNumberOnLine(tier, line, maxX, maxY) ==
    IF invoiceTierTakesLine(tier, line, ToLower(line.Text), maxX, maxY)
    THEN OrElse(matchInvoicePatterns(invoicePatterns, line.Text),
                IF tier = 1
                THEN firstRun(FindAllString(alphanumericRun, line.Text))
                ELSE NotFound)
    ELSE NotFound

\* one loop over the lines, from line k on, with the tiers from the given
\* one on tried on each line in turn
RECURSIVE invoiceNumberLineByLine(_, _, _)
invoiceNumberLineByLine(tier, lines, k) ==
    IF k > Len(lines) THEN NotFound
    ELSE OrElse(invoiceNumberOnLine(tier, lines[k], maxXOf(lines), maxYOf(lines)),
                OrElse(IF tier < 4
                       THEN invoiceNumberLineByLine(tier + 1, <<lines[k]>>, 1)
                       ELSE NotFound,
                       invoiceNumberLineByLine(tier, lines, k + 1)))

\* the loop of one tier over the lines, from line k on
RECURSIVE invoiceNumberInTier(_, _, _)
invoiceNumberInTier(tier, lines, k) ==
    IF k > Len(lines) THEN NotFound
    ELSE OrElse(invoiceNumberOnLine(tier, lines[k], maxXOf(lines), maxYOf(lines)),
                invoiceNumberInTier(tier, lines, k + 1))

\* the tiers in order, from the given tier on, then the sentinel
RECURSIVE invoiceNumberFromTier(_, _)
invoiceNumberFromTier(tier, lines) ==
    IF tier > 4 THEN Found("UNKNOWN")
    ELSE OrElse(invoiceNumberInTier(tier, lines, 1),
                invoiceNumberFromTier(tier + 1, lines))

extractInvoiceNumberFromPosition(lines) == invoiceNumberFromTier(1, lines)[1]

-----------------------------------------------------------------------------
(* Invoice number resolver, "Number:" label revision (part_003).           *)

verticalTolerance == 50
horizontalTolerance == 300

\* (\d{5,})
fiveDigits == Regexp(Grp(1, Rep(Chr(Digits), 5, -1)), 1)

\* the first line containing "number:", as <<line>>, or <<>>
RECURSIVE findNumberLabel(_)
findNumberLabel(lines) ==
    IF Len(lines) = 0 THEN <<>>
    ELSE IF Contains(ToLower(Head(lines).Text), "number:") THEN <<Head(lines)>>
    ELSE findNumberLabel(Tail(lines))

\* matches[1] where len(matches) > 0
firstGroup(matches) == IF Len(matches) > 0 THEN Found(matches[2]) ELSE NotFound

\* the loop over the lines near the label, to its right
RECURSIVE digitsNearLabel(_, _)
digitsNearLabel(lines, numberLine) ==
    IF Len(lines) = 0 THEN NotFound
    ELSE OrElse(IF Head(lines).Y - numberLine.Y >= -verticalTolerance
                       /\ Head(lines).Y - numberLine.Y <= verticalTolerance
                       /\ Head(lines).X >= numberLine.X
                       /\ Head(lines).X <= numberLine.X + horizontalTolerance
                THEN firstGroup(FindStringSubmatch(fiveDigits, Head(lines).Text))
                ELSE NotFound,
                digitsNearLabel(Tail(lines), numberLine))

\* the lines near the label, when there is a label
digitsNear(lines, label) ==
    IF Len(label) = 0 THEN NotFound ELSE digitsNearLabel(lines, label[1])

\* the loop over the lines containing "invoice" or "delivery docket"
RECURSIVE digitsOnInvoiceLine(_)
digitsOnInvoiceLine(lines) ==
    IF Len(lines) = 0 THEN NotFound
    ELSE OrElse(IF \E kw \in {"invoice", "delivery docket"} :
                       Contains(ToLower(Head(lines).Text), kw)
                THEN firstGroup(FindStringSubmatch(fiveDigits, Head(lines).Text))
                ELSE NotFound,
                digitsOnInvoiceLine(Tail(lines)))

extractInvoiceNumberByLabel(lines) ==
    OrElse(digitsNear(lines, findNumberLabel(lines)),
           OrElse(digitsOnInvoiceLine(lines), Found("UNKNOWN")))[1]

-----------------------------------------------------------------------------
(* Date resolver.                                                          *)

\* \d
Digit == Chr(Digits)
\* [-/.]
DateSep == Chr({"-", "/", "."})
\* (jan|feb|...|dec)
MonthAbbrev ==
    Grp(1, Alt(<<LitI("jan"), LitI("feb"), LitI("mar"), LitI("apr"), LitI("may"),
                 LitI("jun"), LitI("jul"), LitI("aug"), LitI("sep"), LitI("oct"),
                 LitI("nov"), LitI("dec")>>))
\* (january|february|...|december)
MonthName ==
    Grp(1, Alt(<<LitI("january"), LitI("february"), LitI("march"), LitI("april"),
                 LitI("may"), LitI("june"), LitI("july"), LitI("august"),
                 LitI("september"), LitI("october"), LitI("november"),
                 LitI("december")>>))
\* [a-z]*\.?
MonthTail == Cat(<<Star(Chr(Letters)), Opt(Lit("."))>>)
\* [,\s]+
CommaSpaces == Plus(Chr({","} \cup WhiteSpace))
\* \s+
Spaces1 == Plus(Chr(WhiteSpace))

datePatterns ==
    << Regexp(Cat(<<Rep(Digit, 1, 2), DateSep, Rep(Digit, 1, 2), DateSep,
                    Rep(Digit, 2, 4)>>), 0),
       Regexp(Cat(<<Rep(Digit, 4, 4), DateSep, Rep(Digit, 1, 2), DateSep,
                    Rep(Digit, 1, 2)>>), 0),
       Regexp(Cat(<<MonthAbbrev, MonthTail, Spaces1, Rep(Digit, 1, 2), CommaSpaces,
                    Rep(Digit, 2, 4)>>), 1),
       Regexp(Cat(<<MonthName, Spaces1, Rep(Digit, 1, 2), CommaSpaces,
                    Rep(Digit, 2, 4)>>), 1),
       Regexp(Cat(<<Rep(Digit, 1, 2), Spaces1, MonthAbbrev, MonthTail, Spaces1,
                    Rep(Digit, 2, 4)>>), 1),
       Regexp(Cat(<<Rep(Digit, 1, 2), Spaces1, MonthName, Spaces1,
                    Rep(Digit, 2, 4)>>), 1) >>

dateKeywords == {"date", "issued", "invoice date", "order date", "billing date"}

\* if match := re.FindString(line.Text); match != "" { return match }
nonEmptyMatch(match) == IF match # "" THEN Found(match) ELSE NotFound

\* the loop over the patterns on one line
RECURSIVE matchDatePatterns(_, _)
matchDatePatterns(patterns, text) ==
    IF Len(patterns) = 0 THEN NotFound
    ELSE IF Len(patterns) = 1 THEN nonEmptyMatch(FindString(patterns[1], text))
    ELSE OrElse(matchDatePatterns(SubSeq(patterns, 1, Len(patterns) \div 2), text),
                matchDatePatterns(SubSeq(patterns, Len(patterns) \div 2 + 1,
                                         Len(patterns)), text))

\* the condition under which a tier (1..3) looks at a line
dateTierTakesLine(tier, line, maxY) ==
    CASE tier = 1 -> \E keyword \in dateKeywords : Contains(ToLower(line.Text), keyword)
      [] tier = 2 -> line.Y < maxY \div 2
      [] tier = 3 -> TRUE

\* the loop of one tier over the lines, from line k on
RECURSIVE dateInTier(_, _, _)
dateInTier(tier, lines, k) ==
    IF k > Len(lines) THEN NotFound
    ELSE OrElse(IF dateTierTakesLine(tier, lines[k], maxYOf(lines))
                THEN matchDatePatterns(datePatterns, lines[k].Text)
                ELSE NotFound,
                dateInTier(tier, lines, k + 1))

\* the tiers in order, from the given tier on, then the sentinel
RECURSIVE dateFromTier(_, _)
dateFromTier(tier, lines) ==
    IF tier > 3 THEN Found("UNKNOWN")
    ELSE OrElse(dateInTier(tier, lines, 1), dateFromTier(tier + 1, lines))

extractDateFromPosition(lines) == dateFromTier(1, lines)[1]

-----------------------------------------------------------------------------
(* Amount and currency resolver.                                           *)

\* [\$€£]
CurrencySymbol == Chr({"$", "€", "£"})
\* (\d{1,3}(?:[.,]\d{3})*[.,]\d{2})
AmountGroup(n) ==
    Grp(n, Cat(<<Rep(Digit, 1, 3),
                 Star(Cat(<<Chr({".", ","}), Rep(Digit, 3, 3)>>)),
                 Chr({".", ","}), Rep(Digit, 2, 2)>>))
\* ([\$€£]|EUR|USD|GBP) under (?i)
CurrencyAfterGroup(n) ==
    Grp(n, Alt(<<CurrencySymbol, LitI("EUR"), LitI("USD"), LitI("GBP")>>))
\* :?\s*
ColonSpaces == Cat(<<Opt(Lit(":")), Spaces>>)

\* the labels of the keyword patterns, in the order of the pattern lists
amountLabels ==
    << Cat(<<LitI("total"), ColonSpaces>>),
       Cat(<<LitI("amount"), Spaces, LitI("due"), ColonSpaces>>),
       Cat(<<LitI("balance"), Spaces, LitI("due"), ColonSpaces>>),
       Cat(<<LitI("grand"), Spaces, LitI("total"), ColonSpaces>>),
       Cat(<<LitI("total"), Spaces, LitI("amount"), ColonSpaces>>),
       Cat(<<LitI("total"), Spaces, LitI("due"), ColonSpaces>>),
       Cat(<<LitI("invoice"), Spaces, LitI("total"), ColonSpaces>>),
       Cat(<<LitI("payment"), Spaces, LitI("due"), ColonSpaces>>) >>

\* label ([\$€£])\s*(amount): currencyAfter is the outcome of the test
\* strings.Contains(pattern, `(\d{1,3}...)\s*([\$€£]|EUR|USD|GBP)`)
symbolBefore(label) ==
    [re |-> Regexp(Cat(<<label, Grp(1, CurrencySymbol), Spaces, AmountGroup(2)>>), 2),
     currencyAfter |-> FALSE]

\* label (amount)\s*([\$€£]|EUR|USD|GBP)
symbolAfter(label) ==
    [re |-> Regexp(Cat(<<label, AmountGroup(1), Spaces, CurrencyAfterGroup(2)>>), 2),
     currencyAfter |-> TRUE]

\* label (amount)
noSymbol(label) ==
    [re |-> Regexp(Cat(<<label, AmountGroup(1)>>), 1), currencyAfter |-> FALSE]

patterns ==
    [k \in 1..Len(amountLabels) |-> symbolBefore(amountLabels[k])]
        \o <<symbolBefore(Cat(<<>>))>>
        \o [k \in 1..Len(amountLabels) |-> symbolAfter(amountLabels[k])]
        \o <<symbolAfter(Cat(<<>>))>>

patternsNoCurrency == [k \in 1..Len(amountLabels) |-> noSymbol(amountLabels[k])]

\* ([\$€£])?\s*(amount)(?:\s*([\$€£]|EUR|USD|GBP))?  (no (?i) here)
decimalPattern ==
    Regexp(Cat(<<Opt(Grp(1, CurrencySymbol)), Spaces, AmountGroup(2),
                 Opt(Cat(<<Spaces,
                           Grp(3, Alt(<<CurrencySymbol, Lit("EUR"), Lit("USD"),
                                        Lit("GBP")>>))>>))>>), 3)

currencyMap ==
    [sym \in {"$", "€", "£", "EUR", "USD", "GBP", "eur", "usd", "gbp"} |->
        CASE sym \in {"$", "USD", "usd"} -> "USD"
          [] sym \in {"€", "EUR", "eur"} -> "EUR"
          [] sym \in {"£", "GBP", "gbp"} -> "GBP"]

\* the lookup with the captured text itself taken when the map has no entry
mapCurrencyOrSymbol(currency, symbol) ==
    IF symbol \in DOMAIN currencyMap THEN currencyMap[symbol] ELSE symbol

\* if mappedCurrency, ok := currencyMap[symbol]; ok { currency = mappedCurrency }
mapCurrency(currency, symbol) ==
    IF symbol \in DOMAIN currencyMap THEN currencyMap[symbol] ELSE currency

\* the same tests with the dollar as the last resort
lineCurrencyOrDollar(text, otherwise) ==
    IF Contains(text, "€") \/ Contains(ToLower(text), "eur") THEN "EUR"
    ELSE IF Contains(text, "£") \/ Contains(ToLower(text), "gbp") THEN "GBP"
    ELSE "USD"

\* "Look for currency symbols in the line"
lineCurrency(text, otherwise) ==
    IF Contains(text, "$") THEN "USD"
    ELSE IF Contains(text, "€") \/ Contains(ToLower(text), "eur") THEN "EUR"
    ELSE IF Contains(text, "£") \/ Contains(ToLower(text), "gbp") THEN "GBP"
    ELSE otherwise

\* a > b on float64 values held as m / 10^e
Greater(a, b) == a.m * Pow10(b.e) > b.m * Pow10(a.e)

Zero == Normalize(0, 0)

\* the local variables of extractAmountFromPosition, and the value returned
\* once a return statement has run
amountVars(currency) ==
    [returned |-> FALSE, at |-> 0, amount |-> Zero, returnedCurrency |-> "",
     currency |-> currency,
     largestAmount |-> Zero, largestAmountCurrency |-> "",
     largestDecimalNumber |-> Zero, largestDecimalCurrency |-> ""]

\* at is the line of the return statement
Return(st, at, amount, currency) ==
    [st EXCEPT !.returned = TRUE, !.at = at, !.amount = amount,
               !.returnedCurrency = currency]

amountStrOf(pattern, matches) ==
    IF pattern.currencyAfter THEN matches[2] ELSE matches[3]

currencySymbolOf(pattern, matches) ==
    IF pattern.currencyAfter THEN matches[3] ELSE matches[2]

\* keyword line, tagged pattern: currency is assigned before the parse
keywordTaggedParsed(st, amount, currency) ==
    IF ~amount.err THEN Return(st, 888, amount.val, currency)
    ELSE [st EXCEPT !.currency = currency]

keywordTagged(st, pattern, matches) ==
    IF Len(matches) > 2
    THEN keywordTaggedParsed(st, parseAmount(amountStrOf(pattern, matches)),
                             mapCurrency(st.currency, currencySymbolOf(pattern, matches)))
    ELSE st

\* keyword line, untagged pattern
keywordUntaggedParsed(st, amount, text) ==
    IF ~amount.err THEN Return(st, 910, amount.val, lineCurrency(text, st.currency))
    ELSE st

keywordUntagged(st, matches, text) ==
    IF Len(matches) > 1
    THEN keywordUntaggedParsed(st, parseAmount(matches[2]), text)
    ELSE st

\* bottom zone, tagged pattern
bottomTaggedParsed(st, amount, currency) ==
    IF ~amount.err /\ Greater(amount.val, st.largestAmount)
    THEN [st EXCEPT !.currency = currency, !.largestAmount = amount.val,
                    !.largestAmountCurrency = currency]
    ELSE [st EXCEPT !.currency = currency]

bottomTagged(st, pattern, matches) ==
    IF Len(matches) > 2
    THEN bottomTaggedParsed(st, parseAmount(amountStrOf(pattern, matches)),
                            mapCurrency(st.currency, currencySymbolOf(pattern, matches)))
    ELSE st

\* bottom zone, untagged pattern
bottomUntaggedParsed(st, amount, text) ==
    IF ~amount.err /\ Greater(amount.val, st.largestAmount)
    THEN [st EXCEPT !.largestAmount = amount.val,
                    !.largestAmountCurrency = lineCurrency(text, st.currency)]
    ELSE st

bottomUntagged(st, matches, text) ==
    IF Len(matches) > 1
    THEN bottomUntaggedParsed(st, parseAmount(matches[2]), text)
    ELSE st

\* one pattern of a list applied to a line, in the keyword (zone = 1) or the
\* bottom (zone = 3) loop
applyPattern(st, zone, tagged, pattern, matches, text) ==
    CASE zone = 1 /\ tagged -> keywordTagged(st, pattern, matches)
      [] zone = 1 /\ ~tagged -> keywordUntagged(st, matches, text)
      [] zone = 3 /\ tagged -> bottomTagged(st, pattern, matches)
      [] zone = 3 /\ ~tagged -> bottomUntagged(st, matches, text)

\* the loop over a pattern list on one line: the first half of the list,
\* then the second half
RECURSIVE amountPatternLoop(_, _, _, _, _)
amountPatternLoop(st, zone, tagged, ps, text) ==
    IF st.returned \/ Len(ps) = 0 THEN st
    ELSE IF Len(ps) = 1
    THEN applyPattern(st, zone, tagged, ps[1], FindStringSubmatch(ps[1].re, text), text)
    ELSE amountPatternLoop(
             amountPatternLoop(st, zone, tagged, SubSeq(ps, 1, Len(ps) \div 2), text),
             zone, tagged, SubSeq(ps, Len(ps) \div 2 + 1, Len(ps)), text)

\* the condition under which the keyword or the bottom loop looks at a line
amountZoneTakesLine(zone, line, maxY) ==
    CASE zone = 1 ->
           \E kw \in {"total", "amount", "balance", "due", "payment"} :
               Contains(ToLower(line.Text), kw)
      [] zone = 3 -> line.Y > (maxY * 7) \div 10

\* the keyword or the bottom loop over the lines, from line k on: on each
\* line the tagged patterns, then the untagged ones
RECURSIVE amountLineLoop(_, _, _, _)
amountLineLoop(st, zone, lines, k) ==
    IF st.returned \/ k > Len(lines) THEN st
    ELSE amountLineLoop(
             IF amountZoneTakesLine(zone, lines[k], maxYOf(lines))
             THEN amountPatternLoop(
                      amountPatternLoop(st, zone, TRUE, patterns, lines[k].Text),
                      zone, FALSE, patternsNoCurrency, lines[k].Text)
             ELSE st,
             zone, lines, k + 1)

\* if largestAmount > 0 { return largestAmount, largestAmountCurrency }
returnLargestAmount(st) ==
    IF ~st.returned /\ Greater(st.largestAmount, Zero)
    THEN Return(st, 984, st.largestAmount, st.largestAmountCurrency)
    ELSE st

\* the currency of one match of the whole-document fallback
matchCurrencyOf(st, match, text) ==
    IF match[4] # "" THEN mapCurrency(st.currency, match[4])
    ELSE IF match[2] # "" THEN mapCurrency(st.currency, match[2])
    ELSE lineCurrency(text, st.currency)

decimalParsed(st, amount, matchCurrency) ==
    IF ~amount.err /\ Greater(amount.val, st.largestDecimalNumber)
    THEN [st EXCEPT !.largestDecimalNumber = amount.val,
                    !.largestDecimalCurrency = matchCurrency]
    ELSE st

\* the loop over the matches of the fallback pattern on one line
RECURSIVE decimalMatchLoop(_, _, _)
decimalMatchLoop(st, matches, text) ==
    IF Len(matches) = 0 THEN st
    ELSE decimalMatchLoop(
             decimalParsed(st, parseAmount(Head(matches)[3]),
                           matchCurrencyOf(st, Head(matches), text)),
             Tail(matches), text)

\* the fallback loop over the lines
RECURSIVE decimalLineLoop(_, _)
decimalLineLoop(st, lines) ==
    IF st.returned \/ Len(lines) = 0 THEN st
    ELSE decimalLineLoop(
             decimalMatchLoop(st, FindAllStringSubmatch(decimalPattern, Head(lines).Text),
                              Head(lines).Text),
             Tail(lines))

\* the last returns without the test largestDecimalNumber > 0
returnDecimalUntested(st) ==
    IF st.returned THEN st
    ELSE Return(st, 1041, st.largestDecimalNumber, st.largestDecimalCurrency)

\* if largestDecimalNumber > 0 { return ... }; return 0.0, currency
returnLargestDecimal(st) ==
    IF st.returned THEN st
    ELSE IF Greater(st.largestDecimalNumber, Zero)
    THEN Return(st, 1041, st.largestDecimalNumber, st.largestDecimalCurrency)
    ELSE Return(st, 1044, Zero, st.currency)

\* currency := "EUR"; if documentCurrency != "" { currency = documentCurrency }
defaultCurrency(documentCurrency) ==
    IF documentCurrency # "" THEN documentCurrency ELSE "EUR"

\* the locals at the return statement that ran; documentCurrency is the
\* value detectDocumentCurrency(textLines) returned to this call
amountReturn(lines, documentCurrency) ==
    returnLargestDecimal(
        decimalLineLoop(
            returnLargestAmount(
                amountLineLoop(
                    amountLineLoop(amountVars(defaultCurrency(documentCurrency)),
                                   1, lines, 1),
                    3, lines, 1)),
            lines))

\* the pair returned
amountAndCurrency(st) ==
    [amount |-> st.amount, currency |-> st.returnedCurrency, at |-> st.at]

extractAmountFromPosition(lines, documentCurrency) ==
    amountAndCurrency(amountReturn(lines, documentCurrency))

\* the values detectDocumentCurrency can return on the lines, over the
\* orders in which its map can be visited
detectedCurrencies(lines) ==
    {detectDocumentCurrency(lines, order) : order \in MapOrders}

-----------------------------------------------------------------------------
(* More of Go strings, and sort.Slice.                                     *)

HasPrefix(s, prefix) ==
    Len(s) >= Len(prefix) /\ Slice(s, 0, Len(prefix)) = prefix
HasSuffix(s, suffix) ==
    Len(s) >= Len(suffix) /\ Slice(s, Len(s) - Len(suffix), Len(s)) = suffix
TrimPrefix(s, prefix) == IF HasPrefix(s, prefix) THEN Slice(s, Len(prefix), Len(s)) ELSE s
TrimSuffix(s, suffix) == IF HasSuffix(s, suffix) THEN Slice(s, 0, Len(s) - Len(suffix)) ELSE s

\* a part put in front of the first of the parts
PrependChar(c, parts) == <<c \o Head(parts)>> \o Tail(parts)

\* strings.Split(s, sep) for a one-character sep
RECURSIVE Split(_, _)
Split(s, sep) ==
    IF Len(s) = 0 THEN <<"">>
    ELSE IF CharAt(s, 0) = sep THEN <<"">> \o Split(Slice(s, 1, Len(s)), sep)
    ELSE PrependChar(CharAt(s, 0), Split(Slice(s, 1, Len(s)), sep))

\* the number of characters before the first white space of s
RECURSIVE WordLen(_)
WordLen(s) ==
    IF Len(s) = 0 \/ CharAt(s, 0) \in WhiteSpace THEN 0
    ELSE 1 + WordLen(Slice(s, 1, Len(s)))

\* strings.Fields(s)
RECURSIVE Fields(_)
RECURSIVE FieldsOfTrimmed(_, _)
FieldsOfTrimmed(t, n) ==
    IF Len(t) = 0 THEN <<>> ELSE <<Slice(t, 0, n)>> \o Fields(Slice(t, n, Len(t)))

Fields(s) == FieldsOfTrimmed(TrimLeft(s), WordLen(TrimLeft(s)))

\* strings.Join(words, sep)
RECURSIVE Join(_, _)
Join(words, sep) ==
    IF Len(words) = 0 THEN ""
    ELSE IF Len(words) = 1 THEN words[1]
    ELSE words[1] \o sep \o Join(Tail(words), sep)

\* the elements of a sequence, as a set
Range(seq) == {seq[k] : k \in 1..Len(seq)}

\* sort.Slice on a slice of at most 12 elements is an insertion sort: each
\* element moves left while it is less than the one before it.  Elements
\* are [key, val] and less compares the keys.
RECURSIVE InsertLast(_, _)
InsertLast(sorted, item) ==
    IF Len(sorted) > 0 /\ item.key < sorted[Len(sorted)].key
    THEN Append(InsertLast(SubSeq(sorted, 1, Len(sorted) - 1), item),
                sorted[Len(sorted)])
    ELSE Append(sorted, item)

RECURSIVE InsertionSort(_)
InsertionSort(items) ==
    IF Len(items) = 0 THEN <<>>
    ELSE InsertLast(InsertionSort(SubSeq(items, 1, Len(items) - 1)),
                    items[Len(items)])

Vals(items) == [k \in 1..Len(items) |-> items[k].val]

\* sort.Slice(lines, func(i, j) { return lines[i].Y < lines[j].Y })
sortByY(lines) ==
    Vals(InsertionSort([k \in 1..Len(lines) |-> [key |-> lines[k].Y, val |-> lines[k]]]))

\* sort.Slice(names, func(i, j) { return len(names[i]) > len(names[j]) })
sortByLenDesc(names) ==
    Vals(InsertionSort([k \in 1..Len(names) |->
                            [key |-> 0 - ByteLen(names[k]), val |-> names[k]]]))

-----------------------------------------------------------------------------
(* Vendor resolver.                                                        *)

\* a run-time panic of the Go program, in place of a returned string
Panic == "panic: runtime error: index out of range"

LowerAlnum == {CharAt(LowerLetters, i) : i \in 0..25} \cup Digits

\* [a-z0-9][-a-z0-9]* under (?i)
DomainLabel ==
    Cat(<<Chr(Fold(LowerAlnum)), Star(Chr(Fold(LowerAlnum) \cup {"-"}))>>)
\* ([a-z0-9][-a-z0-9]*\.)+[a-z0-9][-a-z0-9]*
DomainName == Cat(<<Plus(Grp(1, Cat(<<DomainLabel, Lit(".")>>))), DomainLabel>>)

websiteRegex == Regexp(Cat(<<LitI("www"), Lit("."), DomainName>>), 1)
emailRegex == Regexp(Cat(<<Lit("@"), DomainName>>), 1)
domainRegex == Regexp(Cat(<<LitI("http"), Opt(LitI("s")), Lit("://"), DomainName>>), 1)

addressRegex ==
    Regexp(Grp(1, Cat(<<Plus(Digit), Plus(Chr(WhiteSpace)),
                        Plus(Chr(Fold(LowerAlnum) \cup WhiteSpace \cup {","})),
                        Alt(<<LitI("street"), LitI("st"), LitI("avenue"), LitI("ave"),
                              LitI("road"), LitI("rd"), LitI("boulevard"),
                              LitI("blvd"), LitI("lane"), LitI("ln"), LitI("drive"),
                              LitI("dr"), LitI("way"), LitI("place"), LitI("pl"),
                              LitI("court"), LitI("ct")>>)>>)), 1)

\* the characters of s that are in the set S
RECURSIVE KeepOnly(_, _)
KeepOnly(s, S) ==
    IF Len(s) = 0 THEN ""
    ELSE (IF CharAt(s, 0) \in S THEN CharAt(s, 0) ELSE "")
             \o KeepOnly(Slice(s, 1, Len(s)), S)

suffixes == <<" inc", " llc", " ltd", " limited", " corp", " corporation", " co",
              " company">>

\* the loop of strings.TrimSuffix over the suffixes
RECURSIVE trimSuffixes(_, _)
trimSuffixes(text, ss) ==
    IF Len(ss) = 0 THEN text
    ELSE trimSuffixes(TrimSuffix(text, Head(ss)), Tail(ss))

cleanTextForComparison(text) ==
    KeepOnly(trimSuffixes(ToLower(text), suffixes), LowerAlnum)

prefixes == <<"www", "mail", "info", "support", "contact", "sales">>

\* the first prefix the domain has is removed, and the loop ends
RECURSIVE trimFirstPrefix(_, _)
trimFirstPrefix(domain, ps) ==
    IF Len(ps) = 0 THEN domain
    ELSE IF HasPrefix(domain, Head(ps)) THEN TrimPrefix(domain, Head(ps))
    ELSE trimFirstPrefix(domain, Tail(ps))

\* regexp [^a-zA-Z0-9] replaced by " "
RECURSIVE spaceNonAlnum(_)
spaceNonAlnum(s) ==
    IF Len(s) = 0 THEN ""
    ELSE (IF CharAt(s, 0) \in Letters \cup Digits THEN CharAt(s, 0) ELSE " ")
             \o spaceNonAlnum(Slice(s, 1, Len(s)))

\* regexp ([a-z])([A-Z]) replaced by "$1 $2": a match cannot begin where
\* another ends, so every lower-upper boundary gets a space
RECURSIVE spaceCamelCase(_)
spaceCamelCase(s) ==
    IF Len(s) < 2 THEN s
    ELSE CharAt(s, 0)
           \o (IF IsLower(CharAt(s, 0)) /\ IsUpper(CharAt(s, 1)) THEN " " ELSE "")
           \o spaceCamelCase(Slice(s, 1, Len(s)))

\* strings.ToUpper(word[:1]) + strings.ToLower(word[1:])
capitalize(word) ==
    IF Len(word) > 0
    THEN UpperOf(CharAt(word, 0)) \o ToLower(Slice(word, 1, Len(word)))
    ELSE word

capitalizeAll(words) == [k \in 1..Len(words) |-> capitalize(words[k])]

convertDomainToReadableName(domain) ==
    Join(capitalizeAll(
             Fields(TrimSpace(spaceCamelCase(spaceNonAlnum(
                 trimFirstPrefix(domain, prefixes)))))), " ")

\* parts[0] of strings.Split(domain, "."), under the test len(parts) > 0
mainPartOf(parts) == IF Len(parts) > 0 THEN <<parts[1]>> ELSE <<>>

RECURSIVE mainPartsOf(_)
mainPartsOf(domains) ==
    IF Len(domains) = 0 THEN <<>>
    ELSE mainPartOf(Split(Head(domains), ".")) \o mainPartsOf(Tail(domains))

\* the slices the scan of the document fills
\* textLines is the caller's array as the parameter sees it; topLines and
\* topLeftLines start nil, so append gives them arrays of their own
NoScan == [textLines |-> <<>>, topLines |-> <<>>, topLeftLines |-> <<>>,
           websiteDomains |-> <<>>, emailDomains |-> <<>>, domainMainParts |-> <<>>]

\* domains found by websiteRegex: match[0] without a leading "www."
websiteDomainsOf(matches) ==
    [k \in 1..Len(matches) |-> TrimPrefix(matches[k][1], "www.")]

\* domains found by emailRegex or domainRegex: match[1], under len(match) > 1
RECURSIVE groupDomainsOf(_)
groupDomainsOf(matches) ==
    IF Len(matches) = 0 THEN <<>>
    ELSE (IF Len(Head(matches)) > 1 THEN <<Head(matches)[2]>> ELSE <<>>)
             \o groupDomainsOf(Tail(matches))

addWebsiteDomains(z, domains) ==
    [z EXCEPT !.websiteDomains = @ \o domains,
              !.domainMainParts = @ \o mainPartsOf(domains)]

addEmailDomains(z, domains) ==
    [z EXCEPT !.emailDomains = @ \o domains,
              !.domainMainParts = @ \o mainPartsOf(domains)]

\* if line.Y < topThreshold { ...; if line.X < leftHalfThreshold { ... } }
addToZones(z, line, topThreshold, leftHalfThreshold) ==
    IF line.Y < topThreshold
    THEN IF line.X < leftHalfThreshold
         THEN [z EXCEPT !.topLines = Append(@, line), !.topLeftLines = Append(@, line)]
         ELSE [z EXCEPT !.topLines = Append(@, line)]
    ELSE z

\* the body of the scan loop on one line
scanLine(z, line, topThreshold, leftHalfThreshold) ==
    addToZones(
        addWebsiteDomains(
            addEmailDomains(
                addWebsiteDomains(
                    z,
                    websiteDomainsOf(FindAllStringSubmatch(websiteRegex, line.Text))),
                groupDomainsOf(FindAllStringSubmatch(emailRegex, line.Text))),
            groupDomainsOf(FindAllStringSubmatch(domainRegex, line.Text))),
        line, topThreshold, leftHalfThreshold)

RECURSIVE scanLines(_, _, _, _)
scanLines(z, lines, topThreshold, leftHalfThreshold) ==
    IF Len(lines) = 0 THEN z
    ELSE scanLines(scanLine(z, Head(lines), topThreshold, leftHalfThreshold),
                   Tail(lines), topThreshold, leftHalfThreshold)

\* the first three lines of the top-left zone, trimmed, those longer than 2
logoTextCandidatesOf(topLeftLines) ==
    SelectSeq([k \in 1..(IF Len(topLeftLines) < 3 THEN Len(topLeftLines) ELSE 3) |->
                  TrimSpace(topLeftLines[k].Text)],
              LAMBDA text : ByteLen(text) > 2)

\* the texts of the top-left lines the address pattern matches
addressLinesOf(topLeftLines) ==
    SelectSeq([k \in 1..Len(topLeftLines) |-> topLeftLines[k].Text],
              LAMBDA text : MatchString(addressRegex, text))

\* the zones sorted, and the logo candidates and address lines taken from
\* the sorted top-left zone
withCandidates(z, topLeftLines) ==
    [textLines |-> z.textLines,
     topLines |-> sortByY(z.topLines), topLeftLines |-> topLeftLines,
     websiteDomains |-> z.websiteDomains, emailDomains |-> z.emailDomains,
     domainMainParts |-> z.domainMainParts,
     logoTextCandidates |-> logoTextCandidatesOf(topLeftLines),
     addressLines |-> addressLinesOf(topLeftLines)]

\* the two sorts applied to the parameter's array as well as to the zones
sortedScanAndInput(z) ==
    withCandidates([z EXCEPT !.textLines = sortByY(@)], sortByY(z.topLeftLines))

sortedScan(z) == withCandidates(z, sortByY(z.topLeftLines))

\* everything the strategies read
headerScan(lines) ==
    sortedScan(scanLines([NoScan EXCEPT !.textLines = lines], lines,
                         (maxYOf(lines) * 3) \div 10, maxXOf(lines) \div 2))

\* the keys of the map uniqueDomains
uniqueDomains(z) == Range(z.websiteDomains \o z.emailDomains)

\* the orders in which a range over a map with the keys S may visit them
RangeOrders(S) ==
    {o \in [1..Cardinality(S) -> S] : \A i, j \in DOMAIN o : o[i] = o[j] => i = j}

\* the two containment tests between a logo text and a domain part
logoMatches(cleanLogoText, cleanDomainPart, logoText) ==
    \/ Contains(cleanLogoText, cleanDomainPart)
    \/ Contains(cleanDomainPart, cleanLogoText) /\ ByteLen(logoText) > 3

RECURSIVE logoForDomainPart(_, _)
logoForDomainPart(cleanDomainPart, logos) ==
    IF Len(logos) = 0 THEN NotFound
    ELSE IF logoMatches(cleanTextForComparison(Head(logos)), cleanDomainPart, Head(logos))
    THEN Found(Head(logos))
    ELSE logoForDomainPart(cleanDomainPart, Tail(logos))

RECURSIVE logoForDomainParts(_, _)
logoForDomainParts(parts, logos) ==
    IF Len(parts) = 0 THEN NotFound
    ELSE OrElse(logoForDomainPart(cleanTextForComparison(Head(parts)), logos),
                logoForDomainParts(Tail(parts), logos))

\* a logo text that shares its cleaned form with a domain part
vendorByDomainAndLogo(z) ==
    IF Len(z.domainMainParts) > 0 /\ Len(z.logoTextCandidates) > 0
    THEN logoForDomainParts(z.domainMainParts, z.logoTextCandidates)
    ELSE NotFound

\* the company name similar to a domain part
similarToDomain(cleanCompanyName, parts) ==
    \E k \in 1..Len(parts) :
        \/ Contains(cleanCompanyName, cleanTextForComparison(parts[k]))
        \/ Contains(cleanTextForComparison(parts[k]), cleanCompanyName)

\* the two returns of the line before the address, then the break
companyNameOf(potentialCompanyName, parts) ==
    IF \/ Len(parts) > 0
          /\ similarToDomain(cleanTextForComparison(potentialCompanyName), parts)
       \/ /\ ByteLen(potentialCompanyName) > 3
          /\ ~Contains(ToLower(potentialCompanyName), "invoice")
          /\ ~Contains(ToLower(potentialCompanyName), "bill")
    THEN Found(potentialCompanyName)
    ELSE NotFound

\* topLeftLines[j-1].Text for the 0-based j = k - 1; an index outside the
\* slice panics
lineBefore(z, k) ==
    IF k - 1 \in 1..Len(z.topLeftLines)
    THEN companyNameOf(TrimSpace(z.topLeftLines[k - 1].Text), z.domainMainParts)
    ELSE Found(Panic)

\* line.Text == addressLine, with no test of j
addressOnLine(text, addressLine, k) == text = addressLine

\* line.Text == addressLine && j > 0, for the 0-based j = k - 1
addressBelowLine(text, addressLine, k) == text = addressLine /\ k > 1

\* the loop over the top-left lines for the first address line
RECURSIVE companyNameAboveAddress(_, _)
companyNameAboveAddress(z, k) ==
    IF k > Len(z.topLeftLines) THEN NotFound
    ELSE IF addressBelowLine(z.topLeftLines[k].Text, z.addressLines[1], k)
    THEN lineBefore(z, k)
    ELSE companyNameAboveAddress(z, k + 1)

vendorByAddress(z) ==
    IF Len(z.addressLines) > 0 /\ Len(z.topLeftLines) > 1
    THEN companyNameAboveAddress(z, 1)
    ELSE NotFound

\* the first logo candidate that is not a common header
RECURSIVE firstLogo(_)
firstLogo(logos) ==
    IF Len(logos) = 0 THEN NotFound
    ELSE IF \A word \in {"invoice", "bill", "receipt", "statement"} :
                ~Contains(ToLower(Head(logos)), word)
    THEN Found(Head(logos))
    ELSE firstLogo(Tail(logos))

\* the readable names of the domains, in the order the map is visited
readableNames(domainOrder) ==
    [k \in 1..Len(domainOrder) |->
        convertDomainToReadableName(Split(domainOrder[k], ".")[1])]

firstOfNames(names) == IF Len(names) > 0 THEN Found(names[1]) ELSE NotFound

\* the longest name made from a domain
vendorByDomains(z, domainOrder) ==
    IF Len(z.websiteDomains) > 0 \/ Len(z.emailDomains) > 0
    THEN firstOfNames(sortByLenDesc(readableNames(domainOrder)))
    ELSE NotFound

\* the trimmed top-left texts that are not headers or labels
potentialVendorNamesOf(topLeftLines) ==
    SelectSeq([k \in 1..Len(topLeftLines) |-> TrimSpace(topLeftLines[k].Text)],
              LAMBDA text :
                  /\ ByteLen(text) > 3
                  /\ \A word \in {"invoice", "bill", "receipt", "statement",
                                  "account", "date", "number"} :
                         ~Contains(ToLower(text), word))

\* the first name of more than one word
RECURSIVE firstOfSeveralWords(_)
firstOfSeveralWords(names) ==
    IF Len(names) = 0 THEN NotFound
    ELSE IF Len(Fields(Head(names))) > 1 THEN Found(Head(names))
    ELSE firstOfSeveralWords(Tail(names))

longestName(names) ==
    IF Len(names) > 0 THEN OrElse(firstOfSeveralWords(names), Found(names[1]))
    ELSE NotFound

\* the first line of the top zone whose trimmed text is longer than 3
RECURSIVE firstTopLine(_)
firstTopLine(topLines) ==
    IF Len(topLines) = 0 THEN NotFound
    ELSE IF ByteLen(TrimSpace(Head(topLines).Text)) > 3
    THEN Found(TrimSpace(Head(topLines).Text))
    ELSE firstTopLine(Tail(topLines))

\* the strategies with the names made from domains ahead of the logo
\* candidates
vendorOfDomainsFirst(z, domainOrder) ==
    OrElse(vendorByDomainAndLogo(z),
    OrElse(vendorByAddress(z),
    OrElse(vendorByDomains(z, domainOrder),
    OrElse(firstLogo(z.logoTextCandidates),
    OrElse(longestName(sortByLenDesc(potentialVendorNamesOf(z.topLeftLines))),
    OrElse(firstTopLine(z.topLines),
           Found("UNKNOWN")))))))

\* the strategies in the order of the code
vendorOf(z, domainOrder) ==
    OrElse(vendorByDomainAndLogo(z),
    OrElse(vendorByAddress(z),
    OrElse(firstLogo(z.logoTextCandidates),
    OrElse(vendorByDomains(z, domainOrder),
    OrElse(longestName(sortByLenDesc(potentialVendorNamesOf(z.topLeftLines))),
    OrElse(firstTopLine(z.topLines),
           Found("UNKNOWN")))))))

\* domainOrder is the order in which the range over uniqueDomains visits
\* its keys
extractVendorNameFromPosition(lines, domainOrder) ==
    IF Len(lines) = 0 THEN "UNKNOWN"
    ELSE vendorOf(headerScan(lines), domainOrder)[1]

-----------------------------------------------------------------------------
(* Field aggregator.                                                       *)

Invoice(vendorName, invoiceNumber, date, total) ==
    [vendorName |-> vendorName, invoiceNumber |-> invoiceNumber, date |-> date,
     totalAmount |-> total.amount, currency |-> total.currency]

extractInvoiceDetails(lines, documentCurrency, domainOrder) ==
    Invoice(extractVendorNameFromPosition(lines, domainOrder),
            extractInvoiceNumberFromPosition(lines),
            extractDateFromPosition(lines),
            extractAmountFromPosition(lines, documentCurrency))

\* the caller's array when extractInvoiceDetails returns: the vendor
\* resolver is the one resolver that sorts, and the empty list returns
\* before its scan
linesAfterExtractInvoiceDetails(lines) ==
    IF Len(lines) = 0 THEN lines ELSE headerScan(lines).textLines

\* the caller's array when parseInvoiceTextWithPosition returns: sorted by
\* Y in place, then read by the four resolvers
linesAfterParseInvoiceTextWithPosition(lines) ==
    linesAfterExtractInvoiceDetails(sortByY(lines))

parseInvoiceTextWithPosition(lines, documentCurrency, domainOrder) ==
    Invoice(extractVendorNameFromPosition(sortByY(lines), domainOrder),
            extractInvoiceNumberFromPosition(sortByY(lines)),
            extractDateFromPosition(sortByY(lines)),
            extractAmountFromPosition(sortByY(lines), documentCurrency))

-----------------------------------------------------------------------------
(* Inputs of the invoice number resolver.                                  *)

\* line texts with labels, tokens of one and of several characters
InvoiceTexts ==
    {"", "Acme Corp", "INVOICE #4521", "Invoice Number: 123", "Invoice #7",
     "# 7 #42", "#", "Inv A #42", "Order No. 77", "Ref No 9", "number 5 ab-12",
     "Invoice 123456", "Invoice No. 4521", "Invoice # 4521", "Order Number: 55",
     "Reference No. 88"}

\* top right, top left, bottom left
InvoicePositions == {<<600, 40>>, <<50, 40>>, <<50, 900>>}

InvoiceLines ==
    {TextLine(t, p[1], p[2]) : t \in InvoiceTexts, p \in InvoicePositions}

InitInvoiceNumber ==
    /\ pc = "ready"
    /\ textLines \in SeqsUpTo(InvoiceLines, MaxLines)
    /\ amountStr = ""
    /\ parsed = SyntaxError
    /\ mapOrder = <<>>
    /\ detected = ""
    /\ invoice = NoInvoice
    /\ previous = NoInvoice
    /\ zones = NoZones
    /\ ocrResult = <<>>
    /\ returnedAt = 0
    /\ files = NoFiles
    /\ requests = NoRequests

CallExtractInvoiceNumber ==
    /\ pc = "ready"
    /\ invoice' = [invoice EXCEPT
                      !.invoiceNumber = extractInvoiceNumberFromPosition(textLines)]
    /\ pc' = "done"
    /\ UNCHANGED <<amountStr, parsed, textLines, mapOrder, detected, previous, zones, ocrResult, returnedAt, files, requests>>

\* the same call in the build of the "Number:" label revision
CallExtractInvoiceNumberByLabel ==
    /\ pc = "ready"
    /\ invoice' = [invoice EXCEPT
                      !.invoiceNumber = extractInvoiceNumberByLabel(textLines)]
    /\ pc' = "done by label"
    /\ UNCHANGED <<amountStr, parsed, textLines, mapOrder, detected, previous, zones, ocrResult, returnedAt, files, requests>>

NextInvoiceNumber == CallExtractInvoiceNumber \/ CallExtractInvoiceNumberByLabel

SpecInvoiceNumber == InitInvoiceNumber /\ [][NextInvoiceNumber]_vars

-----------------------------------------------------------------------------
(* Claims about the invoice number resolver.                               *)

\* the length of the capture of a match; -1 for no match
CaptureLength(matches) ==
    IF Len(matches) > 1 THEN ByteLen(TrimSpace(matches[2])) ELSE -1

\* the lengths of the captures the ordered patterns take on a text
CaptureLengths(text) ==
    {CaptureLength(FindStringSubmatch(invoicePatterns[k], text)) :
        k \in 1..Len(invoicePatterns)}

\* C10: the resolver returns "UNKNOWN" or a string of length at least 2; a
\* capture of length 1 is never returned, and the resolver goes on to the
\* next pattern, line or tier: a longer capture anywhere is still found.
C10_NoSingleCharacter ==
    /\ pc \in {"done", "done by label"} =>
          \/ invoice.invoiceNumber = "UNKNOWN"
          \/ ByteLen(invoice.invoiceNumber) >= 2
    /\ (pc = "done"
           /\ \E i \in 1..Len(textLines) :
                 \E n \in CaptureLengths(textLines[i].Text) : n >= 2)
          => invoice.invoiceNumber # "UNKNOWN"

\* a line whose first pattern captures one character and whose last
\* pattern captures two: the resolver returned the latter
C10_Witness ==
    /\ pc = "done"
    /\ Len(textLines) = 1
    /\ textLines[1].Text = "Inv A #42"
    /\ 1 \in CaptureLengths(textLines[1].Text)
    /\ invoice.invoiceNumber = "42"

\* labels, each with a token that follows it on a line
LabelledTokens ==
    {<<"Invoice Number:", "123">>, <<"Invoice No.", "4521">>, <<"Invoice #", "4521">>,
     <<"Order Number:", "55">>, <<"Reference No.", "88">>}

\* the words of the labels
LabelWords == {"invoice", "number", "no", "order", "reference"}

\* C22: on a list of one line "<label> <token>" the resolver returns the
\* token, and it never returns a word of a label
C22_TokenAfterLabel ==
    pc = "done" =>
        /\ ToLower(invoice.invoiceNumber) \notin LabelWords
        /\ Len(textLines) = 1 =>
               \A lt \in LabelledTokens :
                   textLines[1].Text = lt[1] \o " " \o lt[2]
                       => invoice.invoiceNumber = lt[2]

\* tier t finds a value on line k of the list
TierFinds(t, k) ==
    invoiceNumberOnLine(t, textLines[k], maxXOf(textLines), maxYOf(textLines)) # NotFound

\* line k is the first line of the first tier that finds a value
FirstFinding(t, k) ==
    /\ TierFinds(t, k)
    /\ \A j \in 1..(k - 1) : ~TierFinds(t, j)
    /\ \A u \in 1..(t - 1) : \A j \in 1..Len(textLines) : ~TierFinds(u, j)

-----------------------------------------------------------------------------
(* Inputs of the field aggregator: a document header, an address, a line   *)
(* with two currencies, a line with two domains, an invoice line, a total  *)
(* and an empty line at the origin.                                        *)

EngineLines ==
    {TextLine("", 0, 0),
     TextLine("Acme Corp", 10, 20),
     TextLine("12 Main St", 10, 40),
     TextLine("$ £", 20, 60),
     TextLine("www.abc.com www.xyz.io", 600, 30),
     TextLine("Invoice #4521 Date: 01/02/2024", 600, 40),
     TextLine("Total: €12.50", 600, 900)}

\* a four-line document: invoice line top right, name top left, web
\* address, total at the bottom
ScenarioLines ==
    <<TextLine("INVOICE #4521", 600, 50),
      TextLine("Acme Corp", 50, 40),
      TextLine("www.acmecorp.com", 50, 600),
      TextLine("Total: €1.234,50", 50, 900)>>

InitEngine ==
    /\ pc = "ready"
    /\ textLines \in SeqsUpTo(EngineLines, MaxEngineLines) \cup {ScenarioLines}
    /\ amountStr = ""
    /\ parsed = SyntaxError
    /\ mapOrder = <<>>
    /\ detected = ""
    /\ invoice = NoInvoice
    /\ previous = NoInvoice
    /\ zones = NoZones
    /\ ocrResult = <<>>
    /\ returnedAt = 0
    /\ files = NoFiles
    /\ requests = NoRequests

\* the call returned the record, or panicked and returned nothing
Returned(result) ==
    IF result.vendorName = Panic
    THEN /\ pc' = "panic"
         /\ UNCHANGED <<invoice, previous>>
    ELSE /\ pc' = (IF pc = "ready" THEN "called" ELSE "called again")
         /\ invoice' = result
         /\ previous' = invoice

\* extractInvoiceDetails(textLines), called a first and a second time on
\* the same lines; each call has its own map iteration orders
CallExtractInvoiceDetails ==
    /\ pc \in {"ready", "called"}
    /\ \E documentCurrency \in detectedCurrencies(textLines) :
          \E domainOrder \in RangeOrders(uniqueDomains(headerScan(textLines))) :
              Returned(extractInvoiceDetails(textLines, documentCurrency, domainOrder))
    /\ textLines' = linesAfterExtractInvoiceDetails(textLines)
    /\ UNCHANGED <<amountStr, parsed, mapOrder, detected, zones, ocrResult, returnedAt, files, requests>>

Parsed(result) ==
    IF result.vendorName = Panic
    THEN /\ pc' = "panic"
         /\ UNCHANGED invoice
    ELSE /\ pc' = "parsed"
         /\ invoice' = result

\* invoice := parseInvoiceTextWithPosition(textLines), called once
CallParseInvoiceTextWithPosition ==
    /\ pc = "ready"
    /\ \E documentCurrency \in detectedCurrencies(sortByY(textLines)) :
          \E domainOrder \in RangeOrders(uniqueDomains(headerScan(sortByY(textLines)))) :
              Parsed(parseInvoiceTextWithPosition(textLines, documentCurrency, domainOrder))
    /\ textLines' = linesAfterParseInvoiceTextWithPosition(textLines)
    /\ UNCHANGED <<amountStr, parsed, mapOrder, detected, previous, zones, ocrResult,
                   returnedAt, files, requests>>

NextEngine == CallExtractInvoiceDetails \/ CallParseInvoiceTextWithPosition

SpecEngine == InitEngine /\ [][NextEngine]_vars

-----------------------------------------------------------------------------
(* Claims about the field aggregator.                                      *)

\* C1: two runs of the aggregator on the same line list return the same
\* record, also when two currencies have the same tally and when two names
\* made from domains have the same length.
C1_Deterministic == pc = "called again" => invoice = previous

\* C2: for the empty line list the aggregator returns vendorName "UNKNOWN",
\* invoiceNumber "UNKNOWN", date "UNKNOWN", totalAmount 0.0 and currency
\* "EUR".
C2_EmptyListSentinels ==
    (pc \in {"called", "called again"} /\ Len(textLines) = 0)
        => invoice = [vendorName |-> "UNKNOWN", invoiceNumber |-> "UNKNOWN",
                      date |-> "UNKNOWN", totalAmount |-> Zero, currency |-> "EUR"]

C2_Witness ==
    pc = "called" /\ Len(textLines) = 0 /\ invoice.vendorName = "UNKNOWN"

\* C3: on every line list (empty texts and all-zero coordinates included)
\* the aggregator and its four resolvers return a value: no call ends in an
\* index or a slice out of range, and a resolver that finds nothing says so
\* in its sentinel field.
C3_NoFault ==
    /\ pc # "panic"
    /\ pc \in {"called", "called again"} =>
           /\ invoice.vendorName # Panic
           /\ Len(invoice.invoiceNumber) > 0
           /\ Len(invoice.date) > 0
           /\ invoice.totalAmount.m >= 0
           /\ invoice.currency \in Currencies

\* the address line is the first of the top-left lines: the line above it
\* would be topLeftLines[-1]
C3_Witness ==
    /\ pc = "called"
    /\ Len(textLines) = 3
    /\ textLines[1].Text = "12 Main St"
    /\ textLines[2].Text = "$ £"
    /\ textLines[3].Y = 900
    /\ invoice.vendorName = "12 Main St"

SameRecords(before, after) ==
    /\ Len(before) = Len(after)
    /\ \A line \in Range(before) \cup Range(after) :
           Cardinality({k \in 1..Len(before) : before[k] = line})
               = Cardinality({k \in 1..Len(after) : after[k] = line})

\* C16: a call of either entry point leaves the caller's list holding the
\* same multiset of line records, none added, removed or changed, and a
\* call of extractInvoiceDetails leaves it in the same order as well
C16_CallerLinesKept ==
    [][/\ SameRecords(textLines, textLines')
       /\ (pc' \in {"called", "called again"} => textLines' = textLines)]_vars

\* extractInvoiceDetails has returned on a list that is not sorted by Y and
\* whose top zone the vendor resolver has put in another order
C16_Witness ==
    /\ pc = "called"
    /\ textLines = ScenarioLines
    /\ headerScan(textLines).topLines = <<ScenarioLines[2], ScenarioLines[1]>>

\* C12: on the four-line document the aggregator returns vendorName
\* "Acme Corp", invoiceNumber "4521", totalAmount 1234.50 and currency "EUR".
C12_Scenario ==
    (pc \in {"called", "called again"} /\ textLines = ScenarioLines)
        => /\ invoice.vendorName = "Acme Corp"
           /\ invoice.invoiceNumber = "4521"
           /\ invoice.totalAmount = Normalize(123450, 2)
           /\ invoice.currency = "EUR"

-----------------------------------------------------------------------------
(* The zones of the resolvers.                                             *)

MaxZoneLines == 3

\* y-coordinates around the thresholds of documents of height 1, 9 and 10
ZoneYs == {0, 1, 2, 3, 4, 5, 9, 10}

ZoneLines == {TextLine("a", 0, y) : y \in ZoneYs}

InitZones ==
    /\ pc = "ready"
    /\ textLines \in SeqsUpTo(ZoneLines, MaxZoneLines)
    /\ amountStr = ""
    /\ parsed = SyntaxError
    /\ mapOrder = <<>>
    /\ detected = ""
    /\ invoice = NoInvoice
    /\ previous = NoInvoice
    /\ zones = NoZones
    /\ ocrResult = <<>>
    /\ returnedAt = 0
    /\ files = NoFiles
    /\ requests = NoRequests

\* the lines the top-half loop of the invoice number resolver looks at
topHalfLinesOf(lines) ==
    SelectSeq(lines,
              LAMBDA line : invoiceTierTakesLine(3, line, ToLower(line.Text),
                                                 maxXOf(lines), maxYOf(lines)))

\* the zones as the resolvers compute them on the caller's lines: topLines
\* of the vendor resolver, and the lines of the top-half loop
ClassifyZones ==
    /\ pc = "ready"
    /\ pc' = "classified"
    /\ zones' = [topLines |-> headerScan(textLines).topLines,
                 topHalfLines |-> topHalfLinesOf(textLines)]
    /\ UNCHANGED <<amountStr, parsed, textLines, mapOrder, detected, invoice,
                   previous, ocrResult, returnedAt, files, requests>>

NextZones == ClassifyZones

SpecZones == InitZones /\ [][NextZones]_vars

\* C11: a line is in the top 30% exactly when y < 0.3 * maxY and in the top
\* half exactly when y < 0.5 * maxY, in exact arithmetic; so a line at y = 0
\* is in the top 30% whenever maxY > 0.
C11_ZoneBoundaries ==
    pc = "classified" =>
        \A k \in 1..Len(textLines) :
            /\ (textLines[k] \in Range(zones.topLines))
                   <=> (10 * textLines[k].Y < 3 * maxYOf(textLines))
            /\ (textLines[k] \in Range(zones.topHalfLines))
                   <=> (2 * textLines[k].Y < maxYOf(textLines))

-----------------------------------------------------------------------------
(* The amount resolver on its own.                                         *)

MaxAmountLines == 2

\* keyword lines with and without a currency, lines of the bottom zone,
\* lines no keyword or zone loop takes, and lines that carry no amount
AmountLines ==
    {TextLine("Total: 99.99", 0, 100),
     TextLine("Subtotal: 80.00", 0, 200),
     TextLine("Total: €100.00", 0, 300),
     TextLine("£1.00", 0, 900),
     TextLine("900.00 Usd", 0, 950),
     TextLine("$100.00 EUR", 0, 0),
     TextLine("2.50 £", 0, 0),
     TextLine("$0.00", 0, 1000),
     TextLine("€", 0, 0),
     TextLine("Total: 1234.56", 0, 100),
     TextLine("Total: $1234.56", 0, 100)}

InitAmount ==
    /\ pc = "ready"
    /\ textLines \in SeqsUpTo(AmountLines, MaxAmountLines)
    /\ amountStr = ""
    /\ parsed = SyntaxError
    /\ mapOrder = <<>>
    /\ detected = ""
    /\ invoice = NoInvoice
    /\ previous = NoInvoice
    /\ zones = NoZones
    /\ ocrResult = <<>>
    /\ returnedAt = 0
    /\ files = NoFiles
    /\ requests = NoRequests

\* totalAmount, currency := extractAmountFromPosition(textLines)
amountReturned(documentCurrency, total) ==
    /\ pc' = "called"
    /\ detected' = documentCurrency
    /\ invoice' = [NoInvoice EXCEPT !.totalAmount = total.amount,
                                    !.currency = total.currency]
    /\ returnedAt' = total.at

\* the call; the value of detectDocumentCurrency inside it depends on the
\* order in which the range over its map visits the keys
CallExtractAmountFromPosition ==
    /\ pc = "ready"
    /\ \E documentCurrency \in detectedCurrencies(textLines) :
          amountReturned(documentCurrency,
                         extractAmountFromPosition(textLines, documentCurrency))
    /\ UNCHANGED <<amountStr, parsed, textLines, mapOrder, previous, zones, ocrResult,
                   files, requests>>

NextAmount == CallExtractAmountFromPosition

SpecAmount == InitAmount /\ [][NextAmount]_vars

\* C13: for the document of the single line "Total: 99.99" the resolver
\* returns the amount 99.99 and the currency "EUR".
C13_UntaggedTotal ==
    (pc = "called" /\ Len(textLines) = 1 /\ textLines[1].Text = "Total: 99.99")
        => /\ invoice.totalAmount = Normalize(9999, 2)
           /\ invoice.currency = "EUR"

C13_Witness ==
    /\ pc = "called"
    /\ Len(textLines) = 1
    /\ textLines[1].Text = "Total: 99.99"
    /\ returnedAt = 910

\* C14: whichever return statement runs, the currency returned is "USD",
\* "EUR" or "GBP", never the empty string, and the amount is not negative.
C14_WellFormed ==
    pc = "called" =>
        /\ invoice.currency \in Currencies
        /\ invoice.totalAmount.m >= 0
        /\ invoice.totalAmount.e >= 0

\* the bottom zone returns after a pattern captured a code the map lacks
C14_Witness ==
    /\ pc = "called"
    /\ returnedAt = 984
    /\ \E k \in 1..Len(textLines) : textLines[k].Text = "900.00 Usd"

\* the resolver returns at its tagged keyword return on the line alone
TaggedKeywordLine(k) == amountReturn(<<textLines[k]>>, detected).at = 888

\* C17: when some keyword line has a currency-tagged amount match, the
\* amount and the currency returned are those of the first such line in
\* list order, whatever untagged matches earlier keyword lines have
C17_TaggedTierFirst ==
    pc = "called" =>
        \A k \in 1..Len(textLines) :
            (TaggedKeywordLine(k) /\ \A j \in 1..(k - 1) : ~TaggedKeywordLine(j))
                => /\ invoice.totalAmount
                          = extractAmountFromPosition(<<textLines[k]>>, detected).amount
                   /\ invoice.currency
                          = extractAmountFromPosition(<<textLines[k]>>, detected).currency

\* the currency a captured symbol or code denotes, letter case aside
DenotedCurrency(symbol) == currencyMap[ToLower(symbol)]

\* the captures of tagged pattern p on line k give the amount total
TaggedGives(k, p, total) ==
    /\ Len(FindStringSubmatch(patterns[p].re, textLines[k].Text)) > 2
    /\ parseAmount(amountStrOf(patterns[p],
                               FindStringSubmatch(patterns[p].re, textLines[k].Text)))
           = [val |-> total, err |-> FALSE]

UntaggedGives(k, p, total) ==
    /\ Len(FindStringSubmatch(patternsNoCurrency[p].re, textLines[k].Text)) > 1
    /\ parseAmount(FindStringSubmatch(patternsNoCurrency[p].re, textLines[k].Text)[2])
           = [val |-> total, err |-> FALSE]

\* some match on bottom-zone line k gives the amount total
BottomLineGives(k, total) ==
    /\ amountZoneTakesLine(3, textLines[k], maxYOf(textLines))
    /\ \/ \E p \in 1..Len(patterns) : TaggedGives(k, p, total)
       \/ \E p \in 1..Len(patternsNoCurrency) : UntaggedGives(k, p, total)

\* the symbol or code captured by the first tagged pattern that gives total
FirstTaggedSymbol(k, total) ==
    currencySymbolOf(
        patterns[CHOOSE p \in 1..Len(patterns) :
                     /\ TaggedGives(k, p, total)
                     /\ \A q \in 1..(p - 1) : ~TaggedGives(k, q, total)],
        FindStringSubmatch(
            patterns[CHOOSE p \in 1..Len(patterns) :
                         /\ TaggedGives(k, p, total)
                         /\ \A q \in 1..(p - 1) : ~TaggedGives(k, q, total)].re,
            textLines[k].Text))

\* C18: when the bottom zone gives the result and the first match that
\* reaches the returned amount is a tagged one, the currency returned is the
\* one its captured symbol or code denotes, letter case aside
C18_BottomOwnCurrency ==
    (pc = "called" /\ returnedAt = 984) =>
        \A k \in 1..Len(textLines) :
            (/\ BottomLineGives(k, invoice.totalAmount)
             /\ \E p \in 1..Len(patterns) : TaggedGives(k, p, invoice.totalAmount)
             /\ \A j \in 1..(k - 1) : ~BottomLineGives(j, invoice.totalAmount))
                => invoice.currency = DenotedCurrency(FirstTaggedSymbol(k, invoice.totalAmount))

\* match i of the fallback pattern on line k gives the amount total
DecimalGives(k, i, total) ==
    /\ i <= Len(FindAllStringSubmatch(decimalPattern, textLines[k].Text))
    /\ parseAmount(FindAllStringSubmatch(decimalPattern, textLines[k].Text)[i][3])
           = [val |-> total, err |-> FALSE]

\* no match before match i of line k gives the amount total
FirstDecimalGiving(k, i, total) ==
    /\ DecimalGives(k, i, total)
    /\ \A h \in 1..(i - 1) : ~DecimalGives(k, h, total)
    /\ \A j \in 1..(k - 1) :
           \A h \in 1..Len(FindAllStringSubmatch(decimalPattern, textLines[j].Text)) :
               ~DecimalGives(j, h, total)

\* the currency of a fallback match that captured a symbol or code: the
\* symbol before the amount, then the one after it
SymbolBeforeThenAfter(match) ==
    IF match[2] # "" THEN currencyMap[match[2]] ELSE currencyMap[match[4]]

\* C19: when the whole-document fallback gives the result and the match
\* that gave it captured a symbol or code, the currency returned is the one
\* of the symbol before the amount if there is one, else of the one after
C19_LeadingSymbolFirst ==
    (pc = "called" /\ returnedAt = 1041) =>
        \A k \in 1..Len(textLines) :
            \A i \in 1..Len(FindAllStringSubmatch(decimalPattern, textLines[k].Text)) :
                (/\ FirstDecimalGiving(k, i, invoice.totalAmount)
                 /\ \/ FindAllStringSubmatch(decimalPattern, textLines[k].Text)[i][2] # ""
                    \/ FindAllStringSubmatch(decimalPattern, textLines[k].Text)[i][4] # "")
                    => invoice.currency
                           = SymbolBeforeThenAfter(
                                 FindAllStringSubmatch(decimalPattern, textLines[k].Text)[i])

\* C20: when no tier accepted a candidate, the currency returned with the
\* amount 0.0 is the one detectDocumentCurrency returned for the same lines
C20_NoResultCurrency ==
    (pc = "called" /\ returnedAt = 1044) => invoice.currency = detected

\* keyword lines "Total: N" and "Total: <symbol>N" with four integer digits
\* and no grouping separator
UngroupedTotals == {"Total: 1234.56", "Total: $1234.56"}

\* C29: on a document whose one line is "Total: 1234.56", with or without
\* a currency symbol, the amount returned is 1234.56
C29_WholeToken ==
    (pc = "called" /\ Len(textLines) = 1 /\ textLines[1].Text \in UngroupedTotals)
        => invoice.totalAmount = Normalize(123456, 2)

------------------------------------------------------------------------------
(* The date resolver on its own.                                           *)

MaxDateLines == 2

DateTexts ==
    {"Acme Corp", "Date: 01/02/2024", "03/04/2024", "99/99/9999",
     "Issued 2024-01-15", "2023.12.31", "Jan 5, 2024", "date"}

DateYs == {2, 5, 40, 900}

DateLines == {TextLine(t, 0, y) : t \in DateTexts, y \in DateYs}

InitDate ==
    /\ pc = "ready"
    /\ textLines \in SeqsUpTo(DateLines, MaxDateLines)
    /\ amountStr = ""
    /\ parsed = SyntaxError
    /\ mapOrder = <<>>
    /\ detected = ""
    /\ invoice = NoInvoice
    /\ previous = NoInvoice
    /\ zones = NoZones
    /\ ocrResult = <<>>
    /\ returnedAt = 0
    /\ files = NoFiles
    /\ requests = NoRequests

\* date := extractDateFromPosition(textLines)
CallExtractDateFromPosition ==
    /\ pc = "ready"
    /\ invoice' = [invoice EXCEPT !.date = extractDateFromPosition(textLines)]
    /\ pc' = "dated"
    /\ UNCHANGED <<amountStr, parsed, textLines, mapOrder, detected, previous, zones,
                   ocrResult, returnedAt, files, requests>>

NextDate == CallExtractDateFromPosition

SpecDate == InitDate /\ [][NextDate]_vars

\* line k contains a string shaped like a date
DateShaped(k) == matchDatePatterns(datePatterns, textLines[k].Text) # NotFound

\* the lines of the three tiers as stated: keyword lines, lines with
\* y < 0.5 * maxY, all lines
StatedDateTier(t, k) ==
    CASE t = 1 -> \E keyword \in dateKeywords :
                      Contains(ToLower(textLines[k].Text), keyword)
      [] t = 2 -> 2 * textLines[k].Y < maxYOf(textLines)
      [] t = 3 -> TRUE

\* line k is the first line of the first tier that holds a date
FirstDated(t, k) ==
    /\ StatedDateTier(t, k) /\ DateShaped(k)
    /\ \A j \in 1..(k - 1) : ~(StatedDateTier(t, j) /\ DateShaped(j))
    /\ \A u \in 1..(t - 1) :
           \A j \in 1..Len(textLines) : ~(StatedDateTier(u, j) /\ DateShaped(j))

\* C23: the date returned is the first pattern match on the first line, in
\* list order, of the first tier in the order keyword lines, lines with
\* y < 0.5 * maxY, all lines that holds a date-shaped string; "UNKNOWN" is
\* returned exactly when no line holds one; no calendar check is made
C23_DateCascade ==
    pc = "dated" =>
        /\ \A t \in 1..3 : \A k \in 1..Len(textLines) :
               FirstDated(t, k)
                   => Found(invoice.date)
                          = matchDatePatterns(datePatterns, textLines[k].Text)
        /\ invoice.date = "UNKNOWN" <=> \A k \in 1..Len(textLines) : ~DateShaped(k)
        /\ (Len(textLines) = 1 /\ textLines[1].Text = "99/99/9999")
               => invoice.date = "99/99/9999"

\* numeric year-first dates of the input texts
YearFirstDates == {"2024-01-15", "2023.12.31"}

\* C24: when the one line of the list holds a numeric year-first date, the
\* string returned is that whole date
C24_WholeYearFirstDate ==
    (pc = "dated" /\ Len(textLines) = 1) =>
        \A d \in YearFirstDates :
            Contains(textLines[1].Text, d) => invoice.date = d

------------------------------------------------------------------------------
(* The vendor resolver on its own.                                         *)

MaxVendorLines == 3

\* header lines in the top-left zone, two lines with a web address at the
\* bottom right
VendorLines ==
    {TextLine("ab", 10, 5),
     TextLine("****", 10, 10),
     TextLine("", 10, 15),
     TextLine("Acme Corp", 10, 20),
     TextLine("Invoice", 10, 30),
     TextLine("12 Main St", 10, 40),
     TextLine("www.acme.com", 600, 900),
     TextLine("www.mail.com", 600, 900)}

\* a top-left zone whose first three lines are trivial and whose fourth is
\* not
FourthLineDocument ==
    <<TextLine("ab", 10, 5), TextLine("cd", 10, 6), TextLine("ef", 10, 7),
      TextLine("Acme Corp", 10, 20), TextLine("www.acme.com", 600, 900)>>

InitVendor ==
    /\ pc = "ready"
    /\ textLines \in SeqsUpTo(VendorLines, MaxVendorLines) \cup {FourthLineDocument}
    /\ amountStr = ""
    /\ parsed = SyntaxError
    /\ mapOrder = <<>>
    /\ detected = ""
    /\ invoice = NoInvoice
    /\ previous = NoInvoice
    /\ zones = NoZones
    /\ ocrResult = <<>>
    /\ returnedAt = 0
    /\ files = NoFiles
    /\ requests = NoRequests

VendorReturned(vendorName) ==
    IF vendorName = Panic
    THEN /\ pc' = "panic"
         /\ UNCHANGED invoice
    ELSE /\ pc' = "vendor named"
         /\ invoice' = [invoice EXCEPT !.vendorName = vendorName]

\* vendorName := extractVendorNameFromPosition(textLines)
CallExtractVendorNameFromPosition ==
    /\ pc = "ready"
    /\ \E domainOrder \in RangeOrders(uniqueDomains(headerScan(textLines))) :
          VendorReturned(extractVendorNameFromPosition(textLines, domainOrder))
    /\ textLines' = linesAfterExtractInvoiceDetails(textLines)
    /\ UNCHANGED <<amountStr, parsed, mapOrder, detected, previous, zones, ocrResult,
                   returnedAt, files, requests>>

NextVendor == CallExtractVendorNameFromPosition

SpecVendor == InitVendor /\ [][NextVendor]_vars

\* one trailing business suffix stripped: the first of the list the text
\* ends with
RECURSIVE StripOneSuffix(_, _)
StripOneSuffix(text, ss) ==
    IF Len(ss) = 0 THEN text
    ELSE IF HasSuffix(text, Head(ss)) THEN TrimSuffix(text, Head(ss))
    ELSE StripOneSuffix(text, Tail(ss))

\* lower case, one trailing business suffix stripped, alphanumerics kept
Clean(text) == KeepOnly(StripOneSuffix(ToLower(text), suffixes), LowerAlnum)

\* the domain cross-reference may return the candidate for the domain part
CrossReferenced(candidate, domainPart) ==
    \/ Contains(Clean(candidate), Clean(domainPart))
    \/ /\ Clean(candidate) # ""
       /\ Contains(Clean(domainPart), Clean(candidate))
       /\ ByteLen(candidate) >= 4

\* C25: when the domain cross-reference decides, the vendor name is a logo
\* candidate whose cleaned form is not empty and that contains a cleaned
\* domain main part or, having at least 4 characters, is contained in one
C25_CrossReference ==
    (pc = "vendor named" /\ vendorByDomainAndLogo(headerScan(textLines)) # NotFound) =>
        /\ invoice.vendorName \in Range(headerScan(textLines).logoTextCandidates)
        /\ Clean(invoice.vendorName) # ""
        /\ \E k \in 1..Len(headerScan(textLines).domainMainParts) :
               CrossReferenced(invoice.vendorName,
                               headerScan(textLines).domainMainParts[k])

\* the first 3 of the trimmed texts longer than 2 characters
FirstThreeNonTrivial(topLeftLines) ==
    SubSeq(SelectSeq([k \in 1..Len(topLeftLines) |-> TrimSpace(topLeftLines[k].Text)],
                     LAMBDA text : ByteLen(text) > 2),
           1,
           IF Len(SelectSeq([k \in 1..Len(topLeftLines) |->
                                 TrimSpace(topLeftLines[k].Text)],
                            LAMBDA text : ByteLen(text) > 2)) < 3
           THEN Len(SelectSeq([k \in 1..Len(topLeftLines) |->
                                   TrimSpace(topLeftLines[k].Text)],
                              LAMBDA text : ByteLen(text) > 2))
           ELSE 3)

\* C26: the logo candidates are the first 3 non-trivial lines of the logo
\* zone from top to bottom, trivial lines not counted among the 3
C26_LogoCandidates ==
    pc = "vendor named" =>
        headerScan(textLines).logoTextCandidates
            = FirstThreeNonTrivial(headerScan(textLines).topLeftLines)

\* what strategy n of the six finds, the names made from domains taken in
\* the order o
StrategyFinds(n, z, o) ==
    CASE n = 1 -> vendorByDomainAndLogo(z)
      [] n = 2 -> vendorByAddress(z)
      [] n = 3 -> firstLogo(z.logoTextCandidates)
      [] n = 4 -> vendorByDomains(z, o)
      [] n = 5 -> longestName(sortByLenDesc(potentialVendorNamesOf(z.topLeftLines)))
      [] n = 6 -> firstTopLine(z.topLines)

\* strategy n is the first that succeeds
FirstStrategy(n, z, o) ==
    /\ StrategyFinds(n, z, o) # NotFound
    /\ \A m \in 1..(n - 1) : StrategyFinds(m, z, o) = NotFound

\* the name is the trimmed text of a line in the top 30% of the document
TopZoneText(name, lines) ==
    \E k \in 1..Len(lines) :
        /\ 10 * lines[k].Y < 3 * maxYOf(lines)
        /\ TrimSpace(lines[k].Text) = name

\* a logo candidate free of the words invoice, bill, receipt, statement
FreeCandidate(z) ==
    \E k \in 1..Len(z.logoTextCandidates) :
        \A word \in {"invoice", "bill", "receipt", "statement"} :
            ~Contains(ToLower(z.logoTextCandidates[k]), word)

\* the precedence on the scan z of the lines, for the name returned
Precedence(name, z, lines) ==
    /\ \E o \in RangeOrders(uniqueDomains(z)) :
           \/ \E n \in 1..6 : FirstStrategy(n, z, o) /\ Found(name) = StrategyFinds(n, z, o)
           \/ name = "UNKNOWN" /\ \A n \in 1..6 : StrategyFinds(n, z, o) = NotFound
    /\ \A o \in RangeOrders(uniqueDomains(z)) :
           (FirstStrategy(4, z, o) /\ Found(name) = StrategyFinds(4, z, o))
               => ~FreeCandidate(z) /\ vendorByAddress(z) = NotFound
    /\ (FreeCandidate(z) \/ vendorByAddress(z) # NotFound) => TopZoneText(name, lines)
    /\ (\E n \in {1, 2, 3, 5, 6} : \E o \in RangeOrders(uniqueDomains(z)) :
            FirstStrategy(n, z, o))
           => TopZoneText(name, lines)

C28_VendorNeverEmpty ==
    pc = "vendor named" =>
        \/ invoice.vendorName = "UNKNOWN"
        \/ TrimSpace(invoice.vendorName) # ""

-----------------------------------------------------------------------------
(* The line normalizer.                                                    *)

MaxRegions == 2
MaxRegionLines == 2

\* strconv.Atoi(s): an optional sign and one or more decimal digits; a
\* syntax error comes with the value 0
AtoiDigits(sign, digits) ==
    IF Len(digits) > 0 /\ AllDigits(digits)
    THEN [val |-> sign * NatOf(digits), err |-> FALSE]
    ELSE [val |-> 0, err |-> TRUE]

Atoi(s) ==
    IF HasPrefix(s, "-") THEN AtoiDigits(-1, Slice(s, 1, Len(s)))
    ELSE IF HasPrefix(s, "+") THEN AtoiDigits(1, Slice(s, 1, Len(s)))
    ELSE AtoiDigits(1, s)

\* val, _ := strconv.Atoi(part): the value, the error dropped
atoiValue(part) == Atoi(part).val

\* the loop over the parts of the bounding box string; a nil BoundingBox
\* (the empty sequence) leaves boundingBox empty
boundingBoxOf(line) ==
    IF Len(line.BoundingBox) = 0 THEN <<>>
    ELSE [k \in 1..Len(Split(line.BoundingBox[1], ",")) |->
             atoiValue(Split(line.BoundingBox[1], ",")[k])]

\* lineText after the loop over the words
RECURSIVE lineTextOf(_)
lineTextOf(words) ==
    IF Len(words) = 0 THEN ""
    ELSE Head(words) \o " " \o lineTextOf(Tail(words))

\* if len(boundingBox) >= 4 { textLines = append(textLines, TextLine{...}) }
materialize(lineText, boundingBox) ==
    IF Len(boundingBox) >= 4
    THEN <<[Text |-> TrimSpace(lineText), X |-> boundingBox[1], Y |-> boundingBox[2],
            Width |-> boundingBox[3], Height |-> boundingBox[4]]>>
    ELSE <<>>

\* the lines one region adds
regionLines(lines) ==
    Flatten([k \in 1..Len(lines) |->
                materialize(lineTextOf(lines[k].Words), boundingBoxOf(lines[k]))])

extractTextFromOCRResult(result) ==
    Flatten([r \in 1..Len(result) |-> regionLines(result[r])])

\* bounding boxes: nil, too few fields, four and five integers, letters,
\* an empty field, signed integers
BoundingBoxes ==
    {<<>>, <<"">>, <<"1,2,3">>, <<"1,2,3,4">>, <<"a,b,c,d">>, <<"9,8,7,6,5">>,
     <<"1,2,,4">>, <<"-5,+6,7,8">>}

OcrLines ==
    {[BoundingBox |-> b, Words |-> w] :
        b \in BoundingBoxes, w \in {<<"Acme", "Corp">>, <<>>}}

OcrRegions == SeqsUpTo(OcrLines, MaxRegionLines) \ {<<>>}

\* results with one region of any lines, or two regions of which the
\* second holds one good line
OcrResults ==
    SeqsUpTo(OcrRegions, 1)
        \cup {<<r, <<[BoundingBox |-> <<"1,2,3,4">>, Words |-> <<"Total">>]>>>> :
                 r \in OcrRegions}

InitNormalizer ==
    /\ pc = "ready"
    /\ ocrResult \in OcrResults
    /\ textLines = <<>>
    /\ amountStr = ""
    /\ parsed = SyntaxError
    /\ mapOrder = <<>>
    /\ detected = ""
    /\ invoice = NoInvoice
    /\ previous = NoInvoice
    /\ zones = NoZones
    /\ returnedAt = 0
    /\ files = NoFiles
    /\ requests = NoRequests

\* textLines := extractTextFromOCRResult(result)
CallExtractTextFromOCRResult ==
    /\ pc = "ready"
    /\ pc' = "normalized"
    /\ textLines' = extractTextFromOCRResult(ocrResult)
    /\ UNCHANGED <<amountStr, parsed, mapOrder, detected, invoice, previous, zones,
                   ocrResult, returnedAt, files, requests>>

NextNormalizer == CallExtractTextFromOCRResult

SpecNormalizer == InitNormalizer /\ [][NextNormalizer]_vars

\* the number of fields of a bounding box that are integers
ParsedIntegers(line) ==
    IF Len(line.BoundingBox) = 0 THEN 0
    ELSE Cardinality({k \in 1..Len(Split(line.BoundingBox[1], ",")) :
                         ~Atoi(Split(line.BoundingBox[1], ",")[k]).err})

\* the lines of the OCR result in region and line order
OcrLinesInOrder == Flatten(ocrResult)

\* C15: a TextLine is emitted for an OCR line only if at least 4 integers
\* were parsed from its bounding box: a line with no box, with fewer than 4
\* fields or with fields that are not integers gives none, and the lines
\* emitted keep the order of the regions and lines.
C15_OnlyParsedBoxes ==
    pc = "normalized" =>
        /\ Len(textLines) = Len(SelectSeq(OcrLinesInOrder,
                                          LAMBDA line : ParsedIntegers(line) >= 4))
        /\ \A k \in 1..Len(textLines) :
              textLines[k].Text =
                  TrimSpace(lineTextOf(SelectSeq(OcrLinesInOrder,
                      LAMBDA line : ParsedIntegers(line) >= 4)[k].Words))

------------------------------------------------------------------------------
(* The scanInvoice handler, one goroutine per request, on the two files    *)
(* of fixed name in the working directory.                                 *)

InitScan ==
    /\ pc = "serving"
    /\ textLines = <<>>
    /\ amountStr = ""
    /\ parsed = SyntaxError
    /\ mapOrder = <<>>
    /\ detected = ""
    /\ invoice = NoInvoice
    /\ previous = NoInvoice
    /\ zones = NoZones
    /\ ocrResult = <<>>
    /\ returnedAt = 0
    /\ files = NoFiles
    /\ requests = NoRequests

\* what the handlers' file steps leave alone
resolverVars ==
    <<pc, amountStr, parsed, textLines, mapOrder, detected, invoice, previous, zones,
      ocrResult, returnedAt>>

\* c.JSON(500, ...); return, with the deferred calls still to run
Failed(r, deferred) ==
    requests' = [requests EXCEPT ![r].status = 500, ![r].pc = deferred]

\* c.SaveUploadedFile(file, "temp-invoice.jpg"); defer os.Remove(tempPath)
SaveUploadedFile(r) ==
    /\ requests[r].pc = "idle"
    /\ files' = [files EXCEPT !.temp = Upload(r)]
    /\ requests' = [requests EXCEPT ![r].pc = "saved"]
    /\ UNCHANGED resolverVars

\* enhanceImageForOCR: src, err := imaging.Open(imagePath)
OpenUpload(r) ==
    /\ requests[r].pc = "saved"
    /\ IF files.temp = Absent
       THEN Failed(r, "remove temp")
       ELSE requests' = [requests EXCEPT ![r].src = files.temp, ![r].pc = "opened"]
    /\ UNCHANGED files
    /\ UNCHANGED resolverVars

\* enhanceImageForOCR: imaging.Save(img, "processed-invoice.jpg"); then
\* defer os.Remove(processedPath) in the handler
SaveProcessed(r) ==
    /\ requests[r].pc = "opened"
    /\ files' = [files EXCEPT !.processed = Enhanced(requests[r].src)]
    /\ requests' = [requests EXCEPT ![r].pc = "enhanced"]
    /\ UNCHANGED resolverVars

\* createDisplayImage(tempPath, displayPath): reads the upload and writes a
\* file of a name of its own; a failure is logged and the handler goes on
CreateDisplayImage(r) ==
    /\ requests[r].pc = "enhanced"
    /\ requests' = [requests EXCEPT ![r].pc = "displayed"]
    /\ UNCHANGED files
    /\ UNCHANGED resolverVars

\* processedImg, err := imaging.Open(processedPath)
OpenProcessed(r) ==
    /\ requests[r].pc = "displayed"
    /\ IF files.processed = Absent
       THEN Failed(r, "remove processed")
       ELSE requests' = [requests EXCEPT ![r].pc = "sectioned"]
    /\ UNCHANGED files
    /\ UNCHANGED resolverVars

\* imageData, err := os.ReadFile(processedPath)
ReadProcessed(r) ==
    /\ requests[r].pc = "sectioned"
    /\ IF files.processed = Absent
       THEN Failed(r, "remove processed")
       ELSE requests' = [requests EXCEPT ![r].imageData = files.processed,
                                         ![r].pc = "read"]
    /\ UNCHANGED files
    /\ UNCHANGED resolverVars

\* client.RecognizePrintedTextInStream(..., imageReader, ...), then the
\* extraction and the response
RecognizeText(r) ==
    /\ requests[r].pc = "read"
    /\ requests' = [requests EXCEPT ![r].sent = requests[r].imageData,
                                     ![r].status = 200,
                                     ![r].pc = "remove processed"]
    /\ UNCHANGED files
    /\ UNCHANGED resolverVars

\* the deferred os.Remove(processedPath), the first to run
RemoveProcessed(r) ==
    /\ requests[r].pc = "remove processed"
    /\ files' = [files EXCEPT !.processed = Absent]
    /\ requests' = [requests EXCEPT ![r].pc = "remove temp"]
    /\ UNCHANGED resolverVars

\* the deferred os.Remove(tempPath)
RemoveTemp(r) ==
    /\ requests[r].pc = "remove temp"
    /\ files' = [files EXCEPT !.temp = Absent]
    /\ requests' = [requests EXCEPT ![r].pc = "done"]
    /\ UNCHANGED resolverVars

\* one step of the handler of request r
scanInvoice(r) ==
    \/ SaveUploadedFile(r)
    \/ OpenUpload(r)
    \/ SaveProcessed(r)
    \/ CreateDisplayImage(r)
    \/ OpenProcessed(r)
    \/ ReadProcessed(r)
    \/ RecognizeText(r)
    \/ RemoveProcessed(r)
    \/ RemoveTemp(r)

NextScan == \E r \in Requests : scanInvoice(r)

SpecScan == InitScan /\ [][NextScan]_vars

\* C30: the image a request sends to OCR is the enhanced form of the file
\* that request uploaded; from the save of its upload to its read the
\* temporary file holds that upload, and from the save of its enhanced
\* image to its read the processed file holds that image
C30_RequestsIsolated ==
    \A r \in Requests :
        /\ requests[r].sent # Absent => requests[r].sent = Enhanced(Upload(r))
        /\ requests[r].pc = "saved" => files.temp = Upload(r)
        /\ requests[r].pc \in {"enhanced", "displayed", "sectioned"}
               => files.processed = Enhanced(Upload(r))

====
